---- MODULE Spec2Model ----
(***************************************************************************)
(* A model of georef-ar-address: AddressParser.parse (normalisation,       *)
(* tokenisation, chart parsing, ranking, disambiguation, the structure     *)
(* cache and data extraction) and AddressData.                             *)
(*                                                                         *)
(* Address strings are TLA+ strings; a position is a 1-based index and a   *)
(* match is identified by the position that follows it.                    *)
(***************************************************************************)
EXTENDS Integers, Sequences, FiniteSets, TLC

(***************************************************************************)
(* Characters, as Python's re module classifies them (str patterns,        *)
(* re.IGNORECASE).  The letters of the model are the ASCII letters, the    *)
(* Spanish accented letters, the underscore and the ordinal indicators     *)
(* (which \w matches); everything that is neither a letter, a digit nor    *)
(* whitespace is punctuation.                                              *)
(***************************************************************************)
UPPER == "ABCDEFGHIJKLMNOPQRSTUVWXYZÁÉÍÓÚÑ"

LOWER == "abcdefghijklmnopqrstuvwxyzáéíóúñ"

DIGITS == "0123456789"

SPACES == " \t"

CharAt(s, i) == SubSeq(s, i, i)

Chars(s) == {CharAt(s, k) : k \in 1..Len(s)}

\* re.IGNORECASE: characters are compared after case folding
Lower(c) ==
    IF c \in Chars(UPPER)
    THEN CharAt(LOWER, CHOOSE k \in 1..Len(UPPER) : CharAt(UPPER, k) = c)
    ELSE c

IsSpace(c) == c \in Chars(SPACES)

IsDigit(c) == c \in Chars(DIGITS)

IsLetter(c) == c \in Chars(UPPER) \cup Chars(LOWER) \cup {"_", "º", "ª"}

IsWordChar(c) == IsLetter(c) \/ IsDigit(c)

\* the character classes the patterns use: \s \d \D \W, [^\W\d], [^\s] and .
InClass(cls, c) ==
    CASE cls = "s" -> IsSpace(c)
      [] cls = "d" -> IsDigit(c)
      [] cls = "D" -> ~IsDigit(c)
      [] cls = "W" -> ~IsWordChar(c)
      [] cls = "L" -> IsLetter(c)
      [] cls = "S" -> ~IsSpace(c)
      [] cls = "." -> c # "\n"

(***************************************************************************)
(* Regular expressions as Python's re matches them: a backtracking matcher *)
(* that tries the alternatives in their written order and the repetitions  *)
(* greedily (or lazily for +?).  Ends(r, s, i) is the sequence, in the     *)
(* order the matcher tries them, of the positions following a match of r   *)
(* that starts at i; the match re finds at i is the first one.             *)
(***************************************************************************)
Rx(t, c, rs) == [t |-> t, c |-> c, rs |-> rs]

Ch(c) == Rx("ch", c, <<>>)

Cls(cls) == Rx("cls", cls, <<>>)

In(cs) == Rx("in", cs, <<>>)

Cat(rs) == Rx("cat", "", rs)

Alt(rs) == Rx("alt", "", rs)

Opt(r) == Rx("opt", "", <<r>>)

Star(r) == Rx("star", "", <<r>>)

Plus(r) == Rx("plus", "", <<r>>)

LazyPlus(r) == Rx("lazyplus", "", <<r>>)

Look(r) == Rx("look", "", <<r>>)

Eol == Rx("eol", "", <<>>)

Str(w) == Cat([k \in 1..Len(w) |-> Ch(CharAt(w, k))])

RECURSIVE Ends(_, _, _)
RECURSIVE CatEnds(_, _, _, _)
RECURSIVE AltEnds(_, _, _, _)
RECURSIVE EachEnds(_, _, _, _)
RECURSIVE StarEnds(_, _, _)
RECURSIVE EachStar(_, _, _, _)
RECURSIVE LazyEnds(_, _, _)
RECURSIVE EachLazy(_, _, _, _)

\* the ends of r from each of the positions starts[k..], in order
EachEnds(r, s, starts, k) ==
    IF k > Len(starts) THEN <<>>
    ELSE Ends(r, s, starts[k]) \o EachEnds(r, s, starts, k + 1)

CatEnds(rs, k, s, i) ==
    IF k > Len(rs) THEN <<i>>
    ELSE LET firsts == Ends(rs[k], s, i)
             RECURSIVE Rest(_)
             Rest(j) == IF j > Len(firsts) THEN <<>>
                        ELSE CatEnds(rs, k + 1, s, firsts[j]) \o Rest(j + 1)
         IN  Rest(1)

AltEnds(rs, k, s, i) ==
    IF k > Len(rs) THEN <<>>
    ELSE Ends(rs[k], s, i) \o AltEnds(rs, k + 1, s, i)

\* r* greedy: one more iteration first, then stop
StarEnds(r, s, i) ==
    LET once == SelectSeq(Ends(r, s, i), LAMBDA e : e > i)
    IN  EachStar(r, s, once, 1) \o <<i>>

EachStar(r, s, starts, k) ==
    IF k > Len(starts) THEN <<>>
    ELSE StarEnds(r, s, starts[k]) \o EachStar(r, s, starts, k + 1)

\* r+? lazy: stop first, then one more iteration
LazyEnds(r, s, i) ==
    LET once == SelectSeq(Ends(r, s, i), LAMBDA e : e > i)
    IN  EachLazy(r, s, once, 1)

EachLazy(r, s, starts, k) ==
    IF k > Len(starts) THEN <<>>
    ELSE <<starts[k]>> \o LazyEnds(r, s, starts[k]) \o EachLazy(r, s, starts, k + 1)

Ends(r, s, i) ==
    CASE r.t = "ch" ->
           IF i <= Len(s) /\ Lower(CharAt(s, i)) = Lower(r.c) THEN <<i + 1>> ELSE <<>>
      [] r.t = "cls" ->
           IF i <= Len(s) /\ InClass(r.c, CharAt(s, i)) THEN <<i + 1>> ELSE <<>>
      [] r.t = "in" ->
           IF i <= Len(s) /\ \E k \in 1..Len(r.c) : Lower(CharAt(r.c, k)) = Lower(CharAt(s, i))
           THEN <<i + 1>> ELSE <<>>
      [] r.t = "cat" -> CatEnds(r.rs, 1, s, i)
      [] r.t = "alt" -> AltEnds(r.rs, 1, s, i)
      [] r.t = "opt" -> Ends(r.rs[1], s, i) \o <<i>>
      [] r.t = "star" -> StarEnds(r.rs[1], s, i)
      [] r.t = "plus" -> EachStar(r.rs[1], s, Ends(r.rs[1], s, i), 1)
      [] r.t = "lazyplus" -> LazyEnds(r.rs[1], s, i)
      [] r.t = "look" -> IF Ends(r.rs[1], s, i) # <<>> THEN <<i>> ELSE <<>>
      [] r.t = "eol" -> IF i = Len(s) + 1 THEN <<i>> ELSE <<>>

\* the match at position i, as the position following it; 0 when there is none
MatchEnd(r, s, i) ==
    LET es == Ends(r, s, i) IN IF es = <<>> THEN 0 ELSE es[1]

(***************************************************************************)
(* Normalisation                                                           *)
(***************************************************************************)
WS == Cls("s")

\* ([^\W\d]{2,}\.?)(\d)
SEPARATION_REGEXP ==
    Cat(<<Cls("L"), Cls("L"), Star(Cls("L")), Opt(Ch(".")), Cls("d")>>)

\* the patterns of _NORMALIZATION_REGEXPS, joined by | in this order
NORMALIZATION_REGEXPS == <<
    \* \((ex|antes|frente|mano|(al\s)?lado).+?\)
    Cat(<<Ch("("),
          Alt(<<Str("ex"), Str("antes"), Str("frente"), Str("mano"),
                Cat(<<Opt(Cat(<<Str("al"), WS>>)), Str("lado")>>)>>),
          LazyPlus(Cls(".")), Ch(")")>>),
    \* ([vb][°ºª]|barrio\s|bo\.\s).*
    Cat(<<Alt(<<Cat(<<In("vb"), In("°ºª")>>),
                Cat(<<Str("barrio"), WS>>),
                Cat(<<Str("bo."), WS>>)>>),
          Star(Cls("."))>>),
    \* \([sneo]\)
    Cat(<<Ch("("), In("sneo"), Ch(")")>>),
    \* ,(\s|$)|\s,
    Alt(<<Cat(<<Ch(","), Alt(<<WS, Eol>>)>>), Cat(<<WS, Ch(",")>>)>>),
    \* [()"|]
    In("()\"|"),
    \* -+$
    Cat(<<Plus(Ch("-")), Eol>>),
    \* \s-+|-+\s
    Alt(<<Cat(<<WS, Plus(Ch("-"))>>), Cat(<<Plus(Ch("-")), WS>>)>>),
    \* \sal\s+(?=\d)
    Cat(<<WS, Str("al"), Plus(WS), Look(Cls("d"))>>)
>>

NormalizationRegexp == Alt(NORMALIZATION_REGEXPS)

\* str.strip(): without its leading and trailing whitespace
RECURSIVE LStrip(_)
LStrip(s) ==
    IF Len(s) > 0 /\ IsSpace(CharAt(s, 1)) THEN LStrip(SubSeq(s, 2, Len(s))) ELSE s

RECURSIVE RStrip(_)
RStrip(s) ==
    IF Len(s) > 0 /\ IsSpace(CharAt(s, Len(s))) THEN RStrip(SubSeq(s, 1, Len(s) - 1)) ELSE s

Strip(s) == RStrip(LStrip(s))

\* _normalization_regexp.sub(' ', s): every match, left to right, becomes a space
RECURSIVE SubSpace(_, _, _)
SubSpace(r, s, p) ==
    IF p > Len(s) THEN ""
    ELSE LET e == MatchEnd(r, s, p)
         IN  IF e = 0 THEN CharAt(s, p) \o SubSpace(r, s, p + 1)
             ELSE " " \o SubSpace(r, s, e)

\* _separation_regexp.sub(r'\1 \2', s): a space before the digit that ends a match
RECURSIVE SubSeparate(_, _, _)
SubSeparate(r, s, p) ==
    IF p > Len(s) THEN ""
    ELSE LET e == MatchEnd(r, s, p)
         IN  IF e = 0 THEN CharAt(s, p) \o SubSeparate(r, s, p + 1)
             ELSE SubSeq(s, p, e - 2) \o " " \o CharAt(s, e - 1) \o SubSeparate(r, s, e)

\* ' '.join(s.split()): whitespace runs become one space, none at the ends
RECURSIVE Collapse(_, _)
Collapse(s, p) ==
    IF p > Len(s) THEN ""
    ELSE IF IsSpace(CharAt(s, p))
         THEN IF p < Len(s) /\ ~IsSpace(CharAt(s, p + 1))
              THEN " " \o Collapse(s, p + 1)
              ELSE Collapse(s, p + 1)
         ELSE CharAt(s, p) \o Collapse(s, p + 1)

JoinSplit(s) == Collapse(LStrip(s), 1)

\* AddressParser._normalize_address
NormalizeAddress(address) ==
    LET normalized == SubSpace(NormalizationRegexp, Strip(address), 1)
        separated == SubSeparate(SEPARATION_REGEXP, normalized, 1)
    IN  JoinSplit(separated)

(***************************************************************************)
(* Tokenisation                                                            *)
(***************************************************************************)
\* (\s|$)
WsOrEol == Alt(<<WS, Eol>>)

\* [\s.]
WsOrDot == Alt(<<WS, Ch(".")>>)

\* _TOKEN_TYPES: the token types and their patterns, in the order in which the
\* tokenizer's pattern joins them
TOKEN_TYPES == <<
    \* y\s(?=\D)|e\s(?=h?[iy])
    <<"AND_WORD", Alt(<<Cat(<<Ch("y"), WS, Look(Cls("D"))>>),
                        Cat(<<Ch("e"), WS, Look(Cat(<<Opt(Ch("h")), In("iy")>>))>>)>>)>>,
    \* y\s(?=\d)
    <<"AND_NUM", Cat(<<Ch("y"), WS, Look(Cls("d"))>>)>>,
    \* de\s
    <<"OF", Cat(<<Str("de"), WS>>)>>,
    \* piso(\s|$)
    <<"FLOOR", Cat(<<Str("piso"), WsOrEol>>)>>,
    \* (d(e?p)?to\.?|departamento|oficina|of\.)\s
    <<"DOOR_TYPE", Cat(<<Alt(<<Cat(<<Ch("d"), Opt(Cat(<<Opt(Ch("e")), Ch("p")>>)),
                                     Str("to"), Opt(Ch("."))>>),
                               Str("departamento"), Str("oficina"), Str("of.")>>),
                         WS>>)>>,
    \* (p\.?b\.?|planta\sbaja)(\s|$)
    <<"GROUNDL", Cat(<<Alt(<<Cat(<<Ch("p"), Opt(Ch(".")), Ch("b"), Opt(Ch("."))>>),
                             Cat(<<Str("planta"), WS, Str("baja")>>)>>),
                       WsOrEol>>)>>,
    \* esquina|esq\.|esq\s|esq/
    <<"ISCT_SEP", Alt(<<Str("esquina"), Str("esq."), Cat(<<Str("esq"), WS>>), Str("esq/")>>)>>,
    \* e/(calles)?|entre\scalles
    <<"BTWN_SEP", Alt(<<Cat(<<Str("e/"), Opt(Str("calles"))>>),
                        Cat(<<Str("entre"), WS, Str("calles")>>)>>)>>,
    \* entre\s
    <<"BETWEEN", Cat(<<Str("entre"), WS>>)>>,
    \* kil[oó]metro|km\.?
    <<"KM", Alt(<<Cat(<<Str("kil"), In("oó"), Str("metro")>>),
                  Cat(<<Str("km"), Opt(Ch("."))>>)>>)>>,
    \* s/nombre
    <<"MISSING_NAME", Str("s/nombre")>>,
    \* (sin\s|s/)(n[uú]mero|n(ro\.?|[°º]))
    <<"MISSING_NUM", Cat(<<Alt(<<Cat(<<Str("sin"), WS>>), Str("s/")>>),
                           Alt(<<Cat(<<Ch("n"), In("uú"), Str("mero")>>),
                                 Cat(<<Ch("n"), Alt(<<Cat(<<Str("ro"), Opt(Ch("."))>>),
                                                      In("°º")>>)>>)>>)>>)>>,
    \* s[/-]n|s\s?n(\s|$)
    <<"S_N", Alt(<<Cat(<<Ch("s"), In("/-"), Ch("n")>>),
                   Cat(<<Ch("s"), Opt(WS), Ch("n"), WsOrEol>>)>>)>>,
    \* (avda|av|bv|diag|pje)[\s.]
    <<"STREET_TYPE_S", Cat(<<Alt(<<Str("avda"), Str("av"), Str("bv"), Str("diag"),
                                   Str("pje")>>),
                             WsOrDot>>)>>,
    \* calle\s|avenida|bo?ulevard?|diagonal|pasaje
    <<"STREET_TYPE_L", Alt(<<Cat(<<Str("calle"), WS>>), Str("avenida"),
                             Cat(<<Ch("b"), Opt(Ch("o")), Str("ulevar"), Opt(Ch("d"))>>),
                             Str("diagonal"), Str("pasaje")>>)>>,
    \* ruta|(rta|rn|rp)[\s.]
    <<"ROUTE", Alt(<<Str("ruta"),
                     Cat(<<Alt(<<Str("rta"), Str("rn"), Str("rp")>>), WsOrDot>>)>>)>>,
    \* n\s?[°ºª*]|#|n(?=\d)
    <<"NUM_LABEL_S", Alt(<<Cat(<<Ch("n"), Opt(WS), In("°ºª*")>>), Ch("#"),
                           Cat(<<Ch("n"), Look(Cls("d"))>>)>>)>>,
    \* nro[\s.]|n[uú]mero
    <<"NUM_LABEL_L", Alt(<<Cat(<<Str("nro"), WsOrDot>>),
                           Cat(<<Ch("n"), In("uú"), Str("mero")>>)>>)>>,
    \* \d+[.,]\d+
    <<"DECIMAL", Cat(<<Plus(Cls("d")), In(".,"), Plus(Cls("d"))>>)>>,
    \* \d+[/-]\d+([/-]\d+)*
    <<"NUM_RANGE", Cat(<<Plus(Cls("d")), In("/-"), Plus(Cls("d")),
                         Star(Cat(<<In("/-"), Plus(Cls("d"))>>))>>)>>,
    \* \d+(era?|nd[oa]|[nmtvr][oa])(\s|$|\.)
    <<"ORDINAL", Cat(<<Plus(Cls("d")),
                       Alt(<<Cat(<<Str("er"), Opt(Ch("a"))>>),
                             Cat(<<Str("nd"), In("oa")>>),
                             Cat(<<In("nmtvr"), In("oa")>>)>>),
                       Alt(<<WS, Eol, Ch(".")>>)>>)>>,
    \* \d+((\s|$)|[°º])
    <<"NUM", Cat(<<Plus(Cls("d")), Alt(<<WsOrEol, In("°º")>>)>>)>>,
    \* n\s
    <<"N", Cat(<<Ch("n"), WS>>)>>,
    \* [^\d\W](\s|$|\.)
    <<"LETTER", Cat(<<Cls("L"), Alt(<<WS, Eol, Ch(".")>>)>>)>>,
    \* [\d]+[^\d\W](\s|$)
    <<"NUMS_LETTER", Cat(<<Plus(Cls("d")), Cls("L"), WsOrEol>>)>>,
    \* [^\s]+
    <<"WORD", Plus(Cls("S"))>>,
    \* \s
    <<"WS", WS>>
>>

\* a match that prefers the longest of the patterns' matches to the first
TokenMatchLongest(s, p, k) ==
    LET ends == [n \in 1..Len(TOKEN_TYPES) |-> MatchEnd(TOKEN_TYPES[n][2], s, p)]
        best == CHOOSE n \in 1..Len(TOKEN_TYPES) :
                   /\ \A m \in 1..Len(TOKEN_TYPES) : ends[m] <= ends[n]
                   /\ \A m \in 1..(n - 1) : ends[m] < ends[n]
    IN  IF ends[best] = 0 THEN [kind |-> "", e |-> 0]
        ELSE [kind |-> TOKEN_TYPES[best][1], e |-> ends[best]]

\* the match of _token_regexp at position p: the kind is the first token type, in
\* the order of TOKEN_TYPES, whose pattern matches there (mo.lastgroup), with the
\* position that follows the match; e = 0 when no pattern matches
RECURSIVE TokenMatch(_, _, _)
TokenMatch(s, p, k) ==
    IF k > Len(TOKEN_TYPES) THEN [kind |-> "", e |-> 0]
    ELSE LET e == MatchEnd(TOKEN_TYPES[k][2], s, p)
         IN  IF e # 0 THEN [kind |-> TOKEN_TYPES[k][1], e |-> e]
             ELSE TokenMatch(s, p, k + 1)

\* self._token_regexp.finditer(address) from position p on: the successive
\* matches, each with its start, the position that follows it and its kind
RECURSIVE FindIter(_, _)
FindIter(s, p) ==
    IF p > Len(s) THEN <<>>
    ELSE LET mo == TokenMatch(s, p, 1)
         IN  IF mo.e = 0 THEN FindIter(s, p + 1)
             ELSE <<[start |-> p, e |-> mo.e, kind |-> mo.kind]>> \o FindIter(s, mo.e)

\* _tokenize_address that keeps mo.group() as it is
RECURSIVE TokenizeFromNoStrip(_, _)
TokenizeFromNoStrip(s, p) ==
    IF p > Len(s) THEN <<>>
    ELSE LET mo == TokenMatch(s, p, 1)
         IN  IF mo.e = 0 THEN TokenizeFromNoStrip(s, p + 1)
             ELSE IF mo.kind # "WS"
                  THEN <<(<<SubSeq(s, p, mo.e - 1), mo.kind>>)>> \o TokenizeFromNoStrip(s, mo.e)
                  ELSE TokenizeFromNoStrip(s, mo.e)

\* _tokenize_address that keeps the WS matches
RECURSIVE TokenizeFromKeepingWs(_, _)
TokenizeFromKeepingWs(s, p) ==
    IF p > Len(s) THEN <<>>
    ELSE LET mo == TokenMatch(s, p, 1)
         IN  IF mo.e = 0 THEN TokenizeFromKeepingWs(s, p + 1)
             ELSE <<(<<Strip(SubSeq(s, p, mo.e - 1)), mo.kind>>)>>
                     \o TokenizeFromKeepingWs(s, mo.e)

\* AddressParser._tokenize_address: the (value, kind) pairs of the successive
\* matches, the values stripped, the WS matches left out
RECURSIVE TokenizeFrom(_, _)
TokenizeFrom(s, p) ==
    IF p > Len(s) THEN <<>>
    ELSE LET mo == TokenMatch(s, p, 1)
         IN  IF mo.e = 0 THEN TokenizeFrom(s, p + 1)
             ELSE IF mo.kind # "WS"
                  THEN <<(<<Strip(SubSeq(s, p, mo.e - 1)), mo.kind>>)>> \o TokenizeFrom(s, mo.e)
                  ELSE TokenizeFrom(s, mo.e)

TokenizeAddress(address) == TokenizeFrom(address, 1)

(***************************************************************************)
(* Optional values: None is the empty sequence, a value v is <<v>>.        *)
(***************************************************************************)
None == <<>>

Some(v) == <<v>>

(***************************************************************************)
(* The grammar (grammars/address-ar.cfg).  A symbol of a right-hand side   *)
(* is a nonterminal (NT) or a quoted terminal (T), a token type name.      *)
(***************************************************************************)
NT(sym) == [nt |-> TRUE, sym |-> sym]

T(sym) == [nt |-> FALSE, sym |-> sym]

P(lhs, rhs) == [lhs |-> lhs, rhs |-> rhs]

START_PRODUCTION == "address"

AddressGrammar == [
  start |-> "address",
  productions |-> <<
    P("address", <<NT("simple")>>),
    P("address", <<NT("intersection")>>),
    P("address", <<NT("between")>>),
    P("simple", <<NT("street_no_num")>>),
    P("simple", <<NT("street_with_num")>>),
    P("intersection", <<NT("street_no_num"), NT("isct_sep"), NT("street_no_num")>>),
    P("intersection", <<NT("street_with_num"), NT("isct_sep"), NT("street_no_num")>>),
    P("intersection", <<NT("street_no_num"), NT("isct_sep"), NT("street_with_num")>>),
    P("between", <<NT("street_no_num"), NT("btwn_sep"), NT("street_no_num"),
                   NT("and_sep"), NT("street_no_num")>>),
    P("between", <<NT("street_with_num"), NT("btwn_sep"), NT("street_no_num"),
                   NT("and_sep"), NT("street_no_num")>>),
    P("between", <<NT("street_no_num"), NT("btwn_sep"), NT("street_no_num"),
                   NT("and_sep"), NT("street_with_num")>>),
    P("street_no_num", <<NT("street")>>),
    P("street_with_num", <<NT("street"), NT("door_number")>>),
    P("street_with_num", <<NT("street"), NT("door_number"), NT("floor")>>),
    P("street", <<NT("unnamed_street")>>),
    P("street", <<NT("street_name")>>),
    P("unnamed_street", <<T("MISSING_NAME")>>),
    P("unnamed_street", <<NT("street_type"), T("MISSING_NAME")>>),
    P("street_name", <<NT("name")>>),
    P("street_name", <<NT("street_type"), NT("name")>>),
    P("street_name", <<NT("street_type"), T("NUM")>>),
    P("street_name", <<T("ROUTE"), T("NUM")>>),
    P("street_name", <<T("ROUTE"), NT("name")>>),
    P("street_type", <<T("STREET_TYPE_S")>>),
    P("street_type", <<T("STREET_TYPE_L")>>),
    P("name", <<NT("name_words")>>),
    P("name", <<NT("name_words"), T("NUM")>>),
    P("name_words", <<NT("name_word")>>),
    P("name_words", <<NT("name_words"), NT("name_word")>>),
    P("name_words", <<NT("name_words"), NT("name_link"), NT("name_word")>>),
    P("name_word", <<T("WORD")>>),
    P("name_word", <<T("LETTER")>>),
    P("name_link", <<T("AND_WORD")>>),
    P("name_link", <<T("OF")>>),
    P("door_number", <<NT("door_number_value")>>),
    P("door_number", <<NT("door_number_unit"), NT("door_number_value")>>),
    P("door_number_value", <<T("NUM")>>),
    P("door_number_value", <<T("DECIMAL")>>),
    P("door_number_value", <<T("NUM_RANGE")>>),
    P("door_number_value", <<T("NUMS_LETTER")>>),
    P("door_number_value", <<T("S_N")>>),
    P("door_number_value", <<T("MISSING_NUM")>>),
    P("door_number_unit", <<T("KM")>>),
    P("door_number_unit", <<T("NUM_LABEL_S")>>),
    P("door_number_unit", <<T("NUM_LABEL_L")>>),
    P("door_number_unit", <<T("N")>>),
    P("floor", <<T("GROUNDL")>>),
    P("floor", <<T("NUM"), T("LETTER")>>),
    P("floor", <<T("ORDINAL"), T("LETTER")>>),
    P("floor", <<T("FLOOR"), T("NUM")>>),
    P("floor", <<T("FLOOR"), T("NUM"), T("LETTER")>>),
    P("floor", <<T("DOOR_TYPE"), T("NUM")>>),
    P("floor", <<T("DOOR_TYPE"), T("LETTER")>>),
    P("isct_sep", <<T("AND_WORD")>>),
    P("isct_sep", <<T("AND_NUM")>>),
    P("isct_sep", <<T("ISCT_SEP")>>),
    P("btwn_sep", <<T("BTWN_SEP")>>),
    P("btwn_sep", <<T("BETWEEN")>>),
    P("and_sep", <<T("AND_WORD")>>),
    P("and_sep", <<T("AND_NUM")>>)
  >>]

(***************************************************************************)
(* _load_grammar: the validations made on the grammar that nltk read.  The *)
(* result is the grammar, or the InvalidGrammarException raised with its   *)
(* message.                                                                *)
(***************************************************************************)
InvalidGrammarException(message) ==
    [status |-> "raise", exc |-> "InvalidGrammarException", message |-> message]

Loaded(g) == [status |-> "grammar", grammar |-> g]

\* nltk.CFG.is_nonempty
IsNonempty(g) == \A k \in 1..Len(g.productions) : Len(g.productions[k].rhs) > 0

\* nonterminals: the left-hand sides of the productions
Nonterminals(g) == {g.productions[k].lhs : k \in 1..Len(g.productions)}

\* terminals: the names of _TOKEN_TYPES
TokenNames == {TOKEN_TYPES[k][1] : k \in 1..Len(TOKEN_TYPES)}

\* whether the loops refuse element n of production k
Refused(g, k, n) ==
    IF g.productions[k].rhs[n].nt
    THEN g.productions[k].rhs[n].sym \notin Nonterminals(g)
    ELSE g.productions[k].rhs[n].sym \notin TokenNames

\* the two loops over the productions and the elements of their right-hand
\* sides: the exception raised at the first element refused, or the grammar
CheckElements(g) ==
    LET refused == {pos \in UNION {{<<k, n>> : n \in 1..Len(g.productions[k].rhs)} :
                                      k \in 1..Len(g.productions)} :
                      Refused(g, pos[1], pos[2])}
    IN  IF refused = {} THEN Loaded(g)
        ELSE LET first == CHOOSE pos \in refused :
                             \A other \in refused :
                                \/ pos[1] < other[1]
                                \/ pos[1] = other[1] /\ pos[2] <= other[2]
                 element == g.productions[first[1]].rhs[first[2]]
             IN  IF element.nt
                 THEN InvalidGrammarException("Invalid nonterminal: " \o element.sym)
                 ELSE InvalidGrammarException("Invalid terminal: " \o element.sym)

\* _load_grammar without the check of the nonterminals
LoadGrammarAnyNonterminal(g) ==
    IF g.start # START_PRODUCTION
    THEN InvalidGrammarException("Start rule must be \"" \o START_PRODUCTION \o "\"")
    ELSE IF ~IsNonempty(g)
    THEN InvalidGrammarException("Empty productions are not allowed")
    ELSE IF \E k \in 1..Len(g.productions) : \E n \in 1..Len(g.productions[k].rhs) :
               ~g.productions[k].rhs[n].nt /\ g.productions[k].rhs[n].sym \notin TokenNames
    THEN InvalidGrammarException("Invalid terminal")
    ELSE Loaded(g)

LoadGrammar(g) ==
    IF g.start # START_PRODUCTION
    THEN InvalidGrammarException("Start rule must be \"" \o START_PRODUCTION \o "\"")
    ELSE IF ~IsNonempty(g)
    THEN InvalidGrammarException("Empty productions are not allowed")
    ELSE CheckElements(g)

\* AddressParser.__init__: the exception of _load_grammar leaves __init__, and
\* no object is made; otherwise the parser holds the grammar
NewAddressParser(g) ==
    LET loaded == LoadGrammar(g)
    IN  IF loaded.status = "raise" THEN loaded
        ELSE [status |-> "AddressParser", grammar |-> loaded.grammar]

(***************************************************************************)
(* Parse trees (nltk.Tree): a label and children; a leaf is a node without *)
(* children whose label is the token type (or, in the visitor's copy, the  *)
(* index of the leaf).                                                     *)
(***************************************************************************)
Tree(label, children) == [label |-> label, children |-> children]

Leaf(label) == [label |-> label, children |-> <<>>]

IsLeaf(t) == t.children = <<>>

(***************************************************************************)
(* The chart parser (nltk.EarleyChartParser.parse): every parse tree of    *)
(* the grammar whose leaves are exactly the given token types.             *)
(* TreesOf(g, sym, kinds, i, j) are the trees of sym over kinds[i..j-1].   *)
(***************************************************************************)
RECURSIVE TreesOf(_, _, _, _, _)
RECURSIVE ChildrenOf(_, _, _, _, _, _)

TreesOf(g, sym, kinds, i, j) ==
    IF ~sym.nt
    THEN IF j = i + 1 /\ kinds[i] = sym.sym THEN {Leaf(sym.sym)} ELSE {}
    ELSE UNION {
           {Tree(sym.sym, cs) : cs \in ChildrenOf(g, g.productions[n].rhs, 1, kinds, i, j)} :
             n \in {m \in 1..Len(g.productions) : g.productions[m].lhs = sym.sym}}

ChildrenOf(g, rhs, k, kinds, i, j) ==
    IF k = Len(rhs)
    THEN {<<t>> : t \in TreesOf(g, rhs[k], kinds, i, j)}
    ELSE UNION {
           {<<t>> \o rest : t \in TreesOf(g, rhs[k], kinds, i, m),
                            rest \in ChildrenOf(g, rhs, k + 1, kinds, m, j)} :
             m \in (i + 1)..(j - (Len(rhs) - k))}

ChartParse(g, kinds) ==
    IF kinds = <<>> THEN {} ELSE TreesOf(g, NT(g.start), kinds, 1, Len(kinds) + 1)

(***************************************************************************)
(* TreeVisitor                                                             *)
(***************************************************************************)
\* a new TreeVisitor: _rank and _components_leaves_indices are None
TreeVisitor(tree) == [tree |-> tree, rank |-> None, indices |-> None]

RECURSIVE LeafCount(_)
LeafCount(t) ==
    IF IsLeaf(t) THEN 1
    ELSE LET RECURSIVE Sum(_)
             Sum(k) == IF k = 0 THEN 0 ELSE Sum(k - 1) + LeafCount(t.children[k])
         IN  Sum(Len(t.children))

\* the copy of the tree in which every leaf holds its own index in the whole
\* tree, counted from 0, left to right
RECURSIVE IndexLeaves(_, _)
IndexLeaves(t, start) ==
    IF IsLeaf(t) THEN Leaf(start)
    ELSE LET RECURSIVE Before(_)
             Before(k) == IF k = 0 THEN 0 ELSE Before(k - 1) + LeafCount(t.children[k])
         IN  Tree(t.label, [k \in 1..Len(t.children) |->
                              IndexLeaves(t.children[k], start + Before(k - 1))])

\* nltk.Tree.subtrees(): the tree and then the subtrees of its children, in
\* order; leaves are not subtrees
RECURSIVE Subtrees(_)
Subtrees(t) ==
    IF IsLeaf(t) THEN <<>>
    ELSE LET RECURSIVE Below(_)
             Below(k) == IF k > Len(t.children) THEN <<>>
                         ELSE Subtrees(t.children[k]) \o Below(k + 1)
         IN  <<t>> \o Below(1)

\* nltk.Tree.leaves(): the leaves, left to right
RECURSIVE Leaves(_)
Leaves(t) ==
    IF IsLeaf(t) THEN <<t.label>>
    ELSE LET RECURSIVE Below(_)
             Below(k) == IF k > Len(t.children) THEN <<>>
                         ELSE Leaves(t.children[k]) \o Below(k + 1)
         IN  Below(1)

COMPONENT_LABELS == {"street", "door_number_value", "door_number_unit", "floor"}

\* _get_components_leaves_indices that keeps the last street only
GetComponentsLeavesIndicesLastStreet(tree) ==
    LET subtrees == SelectSeq(Subtrees(IndexLeaves(tree, 0)),
                              LAMBDA t : t.label \in COMPONENT_LABELS)
        RECURSIVE Visit(_, _)
        Visit(k, acc) ==
            IF k > Len(subtrees) THEN acc
            ELSE Visit(k + 1,
                       IF subtrees[k].label = "street"
                       THEN [acc EXCEPT !.street = <<Leaves(subtrees[k])>>]
                       ELSE [acc EXCEPT ![subtrees[k].label] = Leaves(subtrees[k])])
    IN  Visit(1, [street |-> <<>>, door_number_value |-> None,
                  door_number_unit |-> None, floor |-> None])

\* TreeVisitor._get_components_leaves_indices: per component, the indices of the
\* leaves of its subtree
GetComponentsLeavesIndices(tree) ==
    LET subtrees == SelectSeq(Subtrees(IndexLeaves(tree, 0)),
                              LAMBDA t : t.label \in COMPONENT_LABELS)
        RECURSIVE Visit(_, _)
        Visit(k, acc) ==
            IF k > Len(subtrees) THEN acc
            ELSE LET label == subtrees[k].label
                     leaves_indices == Leaves(subtrees[k])
                 IN  Visit(k + 1,
                           IF label = "street"
                           THEN [acc EXCEPT !.street = Append(@, leaves_indices)]
                           ELSE [acc EXCEPT ![label] = leaves_indices])
    IN  Visit(1, [street |-> <<>>, door_number_value |-> None,
                  door_number_unit |-> None, floor |-> None])

\* tokens[i] with i counted from 0 raises IndexError past the end of the list
SelectRaises(tokens, indices) ==
    \E k \in 1..Len(indices) : indices[k] + 1 > Len(tokens)

\* TreeVisitor._select_token_values: the values of the tokens at the indices,
\* joined with spaces
RECURSIVE SelectTokenValues(_, _)
SelectTokenValues(tokens, indices) ==
    IF indices = <<>> THEN ""
    ELSE IF Len(indices) = 1 THEN tokens[indices[1] + 1][1]
    ELSE tokens[indices[1] + 1][1] \o " " \o SelectTokenValues(tokens, Tail(indices))

\* TreeVisitor.extract_data, after the indices are known: the street names, the
\* door number value and unit and the floor (exc names the exception raised)
ExtractData(components, tokens) ==
    IF \/ \E k \in 1..Len(components.street) : SelectRaises(tokens, components.street[k])
       \/ SelectRaises(tokens, components.door_number_value)
       \/ SelectRaises(tokens, components.door_number_unit)
       \/ SelectRaises(tokens, components.floor)
    THEN [exc |-> "IndexError", street_names |-> <<>>, door_num_value |-> None,
          door_num_unit |-> None, floor |-> None]
    ELSE [exc |-> "",
          street_names |-> [k \in 1..Len(components.street) |->
                              SelectTokenValues(tokens, components.street[k])],
          door_num_value |->
              IF components.door_number_value # None
              THEN Some(SelectTokenValues(tokens, components.door_number_value))
              ELSE None,
          door_num_unit |->
              IF components.door_number_unit # None
              THEN Some(SelectTokenValues(tokens, components.door_number_unit))
              ELSE None,
          floor |->
              IF components.floor # None
              THEN Some(SelectTokenValues(tokens, components.floor))
              ELSE None]

\* list.index: the position, counted from 0, of x in seq
Index(seq, x) == (CHOOSE k \in 1..Len(seq) : seq[k] = x) - 1

\* the subtrees that TreeVisitor._get_rank visits
RankSubtrees(tree) ==
    SelectSeq(Subtrees(tree), LAMBDA t : t.label \in {"street_no_num", "street_with_num"})

\* the type ranks: the presence of a door number changes the order
TypeRanks(has_door_number) ==
    IF has_door_number THEN <<"intersection", "simple", "between">>
    ELSE <<"simple", "intersection", "between">>

\* subtree[0][0].label() and ranks.index(...) raise on a tree of another shape
RankRaises(tree) ==
    LET subtrees == RankSubtrees(tree)
    IN  \/ \E k \in 1..Len(subtrees) :
              \/ IsLeaf(subtrees[k].children[1])
              \/ IsLeaf(subtrees[k].children[1].children[1])
        \/ \A k \in 1..3 : TypeRanks(TRUE)[k] # tree.label

\* _get_rank with one order of the types, with or without a door number
GetRankOneOrder(tree) ==
    LET subtrees == RankSubtrees(tree)
        has_door_number == \E k \in 1..Len(subtrees) : subtrees[k].label = "street_with_num"
        unnamed_streets ==
            Cardinality({k \in 1..Len(subtrees) :
                           subtrees[k].children[1].children[1].label = "unnamed_street"})
    IN  <<unnamed_streets, IF has_door_number THEN 1 ELSE 0,
          Index(TypeRanks(FALSE), tree.label)>>

\* TreeVisitor._get_rank
GetRank(tree) ==
    LET subtrees == RankSubtrees(tree)
        has_door_number == \E k \in 1..Len(subtrees) : subtrees[k].label = "street_with_num"
        unnamed_streets ==
            Cardinality({k \in 1..Len(subtrees) :
                           subtrees[k].children[1].children[1].label = "unnamed_street"})
    IN  <<unnamed_streets, IF has_door_number THEN 1 ELSE 0,
          Index(TypeRanks(has_door_number), tree.label)>>

\* TreeVisitor.rank: computed once and kept in _rank
WithRank(visitor) ==
    IF visitor.rank = None THEN [visitor EXCEPT !.rank = Some(GetRank(visitor.tree))]
    ELSE visitor

\* the order of Python tuples
RankLess(a, b) ==
    \/ a[1] < b[1]
    \/ a[1] = b[1] /\ a[2] < b[2]
    \/ a[1] = b[1] /\ a[2] = b[2] /\ a[3] < b[3]

(***************************************************************************)
(* Disambiguation                                                          *)
(***************************************************************************)
\* list.sort(key=rank, reverse=True): stable, equal ranks keep their order
RECURSIVE SortByRankDesc(_)
SortByRankDesc(visitors) ==
    IF visitors = <<>> THEN <<>>
    ELSE LET sorted == SortByRankDesc(SubSeq(visitors, 1, Len(visitors) - 1))
             v == visitors[Len(visitors)]
             \* v goes after every visitor whose rank is not less than its own
             n == Cardinality({k \in 1..Len(sorted) : ~RankLess(sorted[k].rank[1], v.rank[1])})
         IN  SubSeq(sorted, 1, n) \o <<v>> \o SubSeq(sorted, n + 1, Len(sorted))

\* _disambiguate_trees that takes the first visitor without sorting the list
DisambiguateUnsorted(visitors) ==
    IF Len(visitors) = 1 THEN Some(visitors[1])
    ELSE LET sorted == [k \in 1..Len(visitors) |-> WithRank(visitors[k])]
         IN  IF sorted[1].rank = sorted[2].rank THEN None ELSE Some(sorted[1])

\* _disambiguate_trees without the comparison of the two best ranks
DisambiguateFirst(visitors) ==
    Some(SortByRankDesc([k \in 1..Len(visitors) |-> WithRank(visitors[k])])[1])

\* _disambiguate_trees that sorts without reverse=True
DisambiguateAscending(visitors) ==
    IF Len(visitors) = 1 THEN Some(visitors[1])
    ELSE LET sorted == SortByRankDesc([k \in 1..Len(visitors) |-> WithRank(visitors[k])])
             n == Len(sorted)
         IN  IF sorted[n].rank = sorted[n - 1].rank THEN None ELSE Some(sorted[n])

\* AddressParser._disambiguate_trees: the best visitor, or None when the two
\* best have the same rank
DisambiguateTrees(visitors) ==
    IF Len(visitors) = 1 THEN Some(visitors[1])
    ELSE LET sorted == SortByRankDesc([k \in 1..Len(visitors) |-> WithRank(visitors[k])])
         IN  IF sorted[1].rank = sorted[2].rank THEN None ELSE Some(sorted[1])

\* AddressParser._tokens_parse_tree, given the trees in the order in which the
\* chart parser yields them: tree[0] is the subtree under 'address'
TokensParseTree(trees) ==
    LET visitors == [k \in 1..Len(trees) |-> TreeVisitor(trees[k].children[1])]
    IN  IF visitors # <<>> THEN DisambiguateTrees(visitors) ELSE None

\* the terminals of a grammar
Terminals(g) ==
    UNION {{g.productions[k].rhs[n].sym :
              n \in {i \in 1..Len(g.productions[k].rhs) : ~g.productions[k].rhs[i].nt}} :
           k \in 1..Len(g.productions)}

\* the exception that _tokens_parse_tree raises, "" when it raises none: the
\* chart parser raises ValueError when the grammar does not cover a token type,
\* and the ranks are computed when there are two trees or more
TokensParseTreeExc(token_types, trees) ==
    IF \E k \in 1..Len(token_types) : token_types[k] \notin Terminals(AddressGrammar)
    THEN "ValueError"
    ELSE IF Len(trees) >= 2 /\ \E k \in 1..Len(trees) : RankRaises(trees[k].children[1])
    THEN "AttributeError"
    ELSE ""

(***************************************************************************)
(* AddressData                                                             *)
(***************************************************************************)
ADDRESS_TYPES == <<"simple", "intersection", "between">>

Raise(exc) == [status |-> "raise", exc |-> exc]

\* AddressData.__init__ without the check of the type
AddressDataUnchecked(address_type, street_names, door_number, floor) ==
    [status |-> "AddressData",
     type |-> address_type,
     street_names |-> street_names,
     door_number_value |-> IF door_number # None THEN door_number[1] ELSE None,
     door_number_unit |-> IF door_number # None THEN door_number[2] ELSE None,
     floor |-> floor]

\* AddressData.__init__: door_number is None or the pair <<value, unit>>
AddressData(address_type, street_names, door_number, floor) ==
    IF \A k \in 1..Len(ADDRESS_TYPES) : ADDRESS_TYPES[k] # address_type
    THEN Raise("ValueError")
    ELSE [status |-> "AddressData",
          type |-> address_type,
          street_names |-> street_names,
          door_number_value |-> IF door_number # None THEN door_number[1] ELSE None,
          door_number_unit |-> IF door_number # None THEN door_number[2] ELSE None,
          floor |-> floor]

\* re.search(r, s) from position p on: the start of the first match and the
\* position following it, <<0, 0>> when there is none
RECURSIVE Search(_, _, _)
Search(r, s, p) ==
    IF p > Len(s) + 1 THEN <<0, 0>>
    ELSE LET e == MatchEnd(r, s, p)
         IN  IF e # 0 THEN <<p, e>> ELSE Search(r, s, p + 1)

\* the numbers that normalized_door_number_value returns: an int m, or a float
\* m / 10^scale with no zero at the end of its decimals
IntNum(m) == [kind |-> "int", m |-> m, scale |-> 0]

FloatNum(m, scale) == [kind |-> "float", m |-> m, scale |-> scale]

DigitVal(c) == (CHOOSE k \in 1..Len(DIGITS) : CharAt(DIGITS, k) = c) - 1

\* int(s) for a string of digits
RECURSIVE IntOf(_)
IntOf(s) ==
    IF s = "" THEN 0
    ELSE IntOf(SubSeq(s, 1, Len(s) - 1)) * 10 + DigitVal(CharAt(s, Len(s)))

\* str.replace(',', '.')
ReplaceComma(s) ==
    IF s = "" THEN ""
    ELSE LET RECURSIVE Each(_)
             Each(k) == IF k > Len(s) THEN ""
                        ELSE (IF CharAt(s, k) = "," THEN "." ELSE CharAt(s, k)) \o Each(k + 1)
         IN  Each(1)

\* a string of digits without the zeros at its end
RECURSIVE DropZeros(_)
DropZeros(s) ==
    IF s # "" /\ CharAt(s, Len(s)) = "0" THEN DropZeros(SubSeq(s, 1, Len(s) - 1)) ELSE s

\* float(s) for digits, a point and digits
FloatOf(s) ==
    LET point == CHOOSE k \in 1..Len(s) : CharAt(s, k) = "."
        decimals == DropZeros(SubSeq(s, point + 1, Len(s)))
    IN  FloatNum(IntOf(SubSeq(s, 1, point - 1) \o decimals), Len(decimals))

\* \d+[,.]\d+
FLOAT_REGEXP == Cat(<<Plus(Cls("d")), In(",."), Plus(Cls("d"))>>)

\* \d+
INT_REGEXP == Plus(Cls("d"))

\* km|kil(o|ó)metro
KM_REGEXP == Alt(<<Str("km"), Cat(<<Str("kil"), Alt(<<Ch("o"), Ch("ó")>>), Str("metro")>>)>>)

\* the text of a match
Group(s, match) == SubSeq(s, match[1], match[2] - 1)

\* normalized_door_number_value that tries the int before the float
NormalizedDoorNumberValueIntFirst(data) ==
    IF data.door_number_value = None \/ data.door_number_value = Some("") THEN None
    ELSE IF Search(INT_REGEXP, data.door_number_value[1], 1)[1] # 0
    THEN Some(IntNum(IntOf(Group(data.door_number_value[1],
                              Search(INT_REGEXP, data.door_number_value[1], 1)))))
    ELSE None

\* AddressData.normalized_door_number_value
NormalizedDoorNumberValue(data) ==
    IF data.door_number_value = None \/ data.door_number_value = Some("") THEN None
    ELSE IF Search(FLOAT_REGEXP, data.door_number_value[1], 1)[1] # 0
    THEN Some(FloatOf(ReplaceComma(Group(data.door_number_value[1],
                                         Search(FLOAT_REGEXP, data.door_number_value[1], 1)))))
    ELSE IF Search(INT_REGEXP, data.door_number_value[1], 1)[1] # 0
    THEN Some(IntNum(IntOf(Group(data.door_number_value[1],
                              Search(INT_REGEXP, data.door_number_value[1], 1)))))
    ELSE None

\* whether w is a part of s, compared as written
Within(w, s) == \E i \in 1..Len(s) : i + Len(w) - 1 <= Len(s) /\ SubSeq(s, i, i + Len(w) - 1) = w

\* normalized_door_number_unit without re.IGNORECASE
NormalizedDoorNumberUnitExact(data) ==
    IF data.door_number_unit = None \/ data.door_number_unit = Some("") THEN None
    ELSE IF \E w \in {"km", "kilometro", "kilómetro"} : Within(w, data.door_number_unit[1])
    THEN Some("km")
    ELSE None

\* AddressData.normalized_door_number_unit
NormalizedDoorNumberUnit(data) ==
    IF data.door_number_unit = None \/ data.door_number_unit = Some("") THEN None
    ELSE IF Search(KM_REGEXP, data.door_number_unit[1], 1)[1] # 0 THEN Some("km")
    ELSE None

(***************************************************************************)
(* AddressParser                                                           *)
(***************************************************************************)
\* [t_type for _, t_type in tokens]
KindsOf(tokens) == [k \in 1..Len(tokens) |-> tokens[k][2]]

KindIndex(kind) == CHOOSE k \in 1..Len(TOKEN_TYPES) : TOKEN_TYPES[k][1] = kind

\* hash(tuple(token_types)): a number computed from the token types in their
\* order (the lexemes take no part).  It is the numeral whose digits are the
\* positions of the types in TOKEN_TYPES, so that the hashes of the token type
\* lists of the model do not collide.
\* a hash that depends on the number of token types only
TokensHashLen(token_types) == Len(token_types)

RECURSIVE TokensHash(_)
TokensHash(token_types) ==
    IF token_types = <<>> THEN 0
    ELSE TokensHash(SubSeq(token_types, 1, Len(token_types) - 1)) * (Len(TOKEN_TYPES) + 1)
         + KindIndex(token_types[Len(token_types)])

EmptyDict == [k \in {} |-> None]

\* what one call observed: whether it tokenized, consulted the cache, found its
\* key there, and ran the chart parser and the disambiguation
Trace(tokenized, consulted, hit, ran) ==
    [tokenized |-> tokenized, consulted |-> consulted, hit |-> hit, ran |-> ran]

\* _parse_token_types that, on a miss, stores the tree and returns nothing
ParseTokenTypesNoReturn(cache, token_types, yielded) ==
    IF cache # None /\ TokensHash(token_types) \notin DOMAIN cache[1]
    THEN [cache |-> Some(cache[1] @@ (TokensHash(token_types) :> TokensParseTree(yielded))),
          tree |-> None, exc |-> "", trace |-> Trace(TRUE, TRUE, FALSE, TRUE)]
    ELSE IF cache # None
    THEN [cache |-> cache, tree |-> cache[1][TokensHash(token_types)], exc |-> "",
          trace |-> Trace(TRUE, TRUE, TRUE, FALSE)]
    ELSE [cache |-> cache, tree |-> TokensParseTree(yielded), exc |-> "",
          trace |-> Trace(TRUE, FALSE, FALSE, TRUE)]

\* _parse_token_types that stores a tree only when there is one
ParseTokenTypesNoNegative(cache, token_types, yielded) ==
    IF cache # None /\ TokensHash(token_types) \in DOMAIN cache[1]
    THEN [cache |-> cache, tree |-> cache[1][TokensHash(token_types)], exc |-> "",
          trace |-> Trace(TRUE, TRUE, TRUE, FALSE)]
    ELSE [cache |-> IF cache # None /\ TokensParseTree(yielded) # None
                    THEN Some(cache[1] @@ (TokensHash(token_types) :> TokensParseTree(yielded)))
                    ELSE cache,
          tree |-> TokensParseTree(yielded), exc |-> "",
          trace |-> Trace(TRUE, cache # None, FALSE, TRUE)]

\* _parse_token_types that, on a miss, keeps the new entry only
ParseTokenTypesEvicting(cache, token_types, yielded) ==
    IF cache # None /\ TokensHash(token_types) \in DOMAIN cache[1]
    THEN [cache |-> cache, tree |-> cache[1][TokensHash(token_types)], exc |-> "",
          trace |-> Trace(TRUE, TRUE, TRUE, FALSE)]
    ELSE [cache |-> IF cache # None
                    THEN Some(TokensHash(token_types) :> TokensParseTree(yielded))
                    ELSE cache,
          tree |-> TokensParseTree(yielded), exc |-> "",
          trace |-> Trace(TRUE, cache # None, FALSE, TRUE)]

\* AddressParser._parse_token_types.  cache is None or <<dict>>; yielded are the
\* trees in the order in which the chart parser yields them for token_types.
ParseTokenTypes(cache, token_types, yielded) ==
    IF cache # None
    THEN LET tokens_hash == TokensHash(token_types)
         IN  IF tokens_hash \in DOMAIN cache[1]
             THEN [cache |-> cache, tree |-> cache[1][tokens_hash], exc |-> "",
                   trace |-> Trace(TRUE, TRUE, TRUE, FALSE)]
             ELSE IF TokensParseTreeExc(token_types, yielded) # ""
                  THEN [cache |-> cache, tree |-> None,
                        exc |-> TokensParseTreeExc(token_types, yielded),
                        trace |-> Trace(TRUE, TRUE, FALSE, TRUE)]
                  ELSE LET tree == TokensParseTree(yielded)
                       IN  [cache |-> Some(cache[1] @@ (tokens_hash :> tree)),
                            tree |-> tree, exc |-> "",
                            trace |-> Trace(TRUE, TRUE, FALSE, TRUE)]
    ELSE IF TokensParseTreeExc(token_types, yielded) # ""
         THEN [cache |-> cache, tree |-> None,
               exc |-> TokensParseTreeExc(token_types, yielded),
               trace |-> Trace(TRUE, FALSE, FALSE, TRUE)]
         ELSE [cache |-> cache, tree |-> TokensParseTree(yielded), exc |-> "",
               trace |-> Trace(TRUE, FALSE, FALSE, TRUE)]

NoneResult == [status |-> "None"]

\* the start of TreeVisitor.extract_data: the indices are computed once and
\* kept in the visitor
WithIndices(visitor) ==
    IF visitor.indices = None
    THEN [visitor EXCEPT !.indices = Some(GetComponentsLeavesIndices(visitor.tree))]
    ELSE visitor

\* the end of AddressParser.parse: the AddressData built from what extract_data
\* returned
Assemble(visitor, data) ==
    IF data.exc # "" THEN Raise(data.exc)
    ELSE AddressData(visitor.tree.label, data.street_names,
                     <<data.door_num_value, data.door_num_unit>>, data.floor)

\* step 5 with a visitor that keeps the values it extracted along with the
\* indices, and gives them again
ExtractKeepingValues(got, visitor, tokens) ==
    LET data == IF "data" \in DOMAIN visitor THEN visitor.data
                ELSE ExtractData(visitor.indices[1], tokens)
        kept == [tree |-> visitor.tree, rank |-> visitor.rank, indices |-> visitor.indices,
                 data |-> data]
    IN  [cache |-> IF got.cache = None THEN None
                   ELSE Some([got.cache[1] EXCEPT ![TokensHash(KindsOf(tokens))] = Some(kept)]),
         result |-> Assemble(visitor, data),
         trace |-> got.trace]

\* step 5 of AddressParser.parse on the visitor found; the visitor that the
\* cache holds is the object that extract_data gave the indices to
Extract(got, visitor, tokens) ==
    [cache |-> IF got.cache = None THEN None
               ELSE Some([got.cache[1] EXCEPT ![TokensHash(KindsOf(tokens))] = Some(visitor)]),
     result |-> Assemble(visitor, ExtractData(visitor.indices[1], tokens)),
     trace |-> got.trace]

\* AddressParser.parse after _parse_token_types returned got
AfterParseTokenTypes(got, tokens) ==
    IF got.exc # ""
    THEN [cache |-> got.cache, result |-> Raise(got.exc), trace |-> got.trace]
    ELSE IF got.tree = None
    THEN [cache |-> got.cache, result |-> NoneResult, trace |-> got.trace]
    ELSE Extract(got, WithIndices(got.tree[1]), tokens)

\* AddressParser.parse from the tokens on (steps 3 to 5): the result, the cache
\* after the call and what the call observed
ParseTokens(cache, tokens, yielded) ==
    AfterParseTokenTypes(ParseTokenTypes(cache, KindsOf(tokens), yielded), tokens)

\* parse without the return on an empty normalized address
ParseNormalizedNoEmptyCheck(cache, processed, tokens, yielded) ==
    ParseTokens(cache, tokens, yielded)

\* AddressParser.parse from the normalized address on: None when it is empty
ParseNormalized(cache, processed, tokens, yielded) ==
    IF processed = ""
    THEN [cache |-> cache, result |-> NoneResult,
          trace |-> Trace(FALSE, FALSE, FALSE, FALSE)]
    ELSE ParseTokens(cache, tokens, yielded)

(***************************************************************************)
(* The addresses of the model                                              *)
(***************************************************************************)
AddressList == <<
    "Corrientes 1000",
    "Tucumán 2000",
    "Corrientes y Salta",
    "Tucumán y Córdoba y Callao",
    "",
    "e/ Salta",
    "Salta, al 100",
    "Salta,  al 100",
    "Tucumán 1300 1° A",
    "   ",
    "Tucumán e/ Corrientes y Salta 1000",
    "e/ Jujuy",
    "Jujuy y Salta y Callao",
    "Santa fe 2000",
    ", -",
    "Ruta 33 KM. 33",
    "Tucuman y Salta 1000",
    "Salta e/ Jujuy y Callao y Peru",
    "s/nombre y Salta 100"
>>

MaxAddresses == 12

MaxCalls == 3

MaxTrees == 4

Addresses ==
    {AddressList[k] : k \in 1..(IF MaxAddresses < Len(AddressList)
                                THEN MaxAddresses ELSE Len(AddressList))}

Known == {AddressList[k] : k \in 1..Len(AddressList)}

\* _normalize_address, _tokenize_address and the chart parser on each address of
\* the model, evaluated once
Normalized == [a \in Known |-> NormalizeAddress(a)]

Tokens == [a \in Known |-> TokenizeAddress(Normalized[a])]

ParseTrees == [a \in Known |-> ChartParse(AddressGrammar, KindsOf(Tokens[a]))]

\* the orders in which the chart parser may yield the trees of a set
Orders(S) ==
    {f \in [1..Cardinality(S) -> S] : \A i, j \in 1..Cardinality(S) : i # j => f[i] # f[j]}

YieldOrders == [a \in Known |-> Orders(ParseTrees[a])]

\* AddressParser.parse
Parse(cache, address, yielded) ==
    ParseNormalized(cache, Normalized[address], Tokens[address], yielded)

VARIABLES
    cache,      \* the dict given to AddressParser(cache=...)
    results,    \* the addresses parsed so far, each with the result of its last call
    last,       \* the last call of parse: its address and what it observed
    calls,      \* the number of calls of parse made
    given,      \* the trees handed to _tokens_parse_tree, in the order yielded
    chosen,     \* what _disambiguate_trees returned for them
    made,       \* the last AddressData constructed, with its arguments
    asked,      \* the last normalized_door_number_... call on it and its result
    mutex,      \* whether the host wraps each call of parse in one lock
    lock,       \* the thread that holds the lock, 0 when it is free
    shared,     \* the dict that the threads' parser holds: hash -> None or <<ref>>
    heap,       \* the TreeVisitor objects that the dict or a thread refers to
    pc,         \* where each thread is in parse
    frame,      \* the local variables of each thread's call of parse
    returned,   \* the calls that returned, in order, each with its result
    constructed,\* the last AddressParser(...) call: its grammar and what it gave
    scanned     \* the last _tokenize_address call: its argument and its tokens

parserVars == <<cache, results, last, calls>>

disambVars == <<given, chosen>>

dataVars == <<made, asked>>

concVars == <<mutex, lock, shared, heap, pc, frame, returned>>

pureVars == <<constructed, scanned>>

vars == <<cache, results, last, calls, given, chosen, made, asked,
          mutex, lock, shared, heap, pc, frame, returned, constructed, scanned>>

Threads == {1, 2}

NoFrame == [address |-> "", visitor |-> None, ran |-> FALSE]

NoCall == [address |-> "", trace |-> Trace(FALSE, FALSE, FALSE, FALSE), before |-> EmptyDict,
           called |-> FALSE]

NotChosen == [done |-> FALSE, out |-> None, parsed |-> None]

NotMade == [from |-> "", type |-> "", street_names |-> <<>>, door_number |-> None,
            floor |-> None, out |-> NoneResult]

InitParser ==
    /\ cache = EmptyDict
    /\ results = [a \in {} |-> NoneResult]
    /\ last = NoCall
    /\ calls = 0

InitDisamb ==
    /\ given = [address |-> "", trees |-> <<>>]
    /\ chosen = NotChosen

NotNormalized == [method |-> "", result |-> None]

InitData == made = NotMade /\ asked = NotNormalized

NotConstructed == [called |-> FALSE, grammar |-> AddressGrammar, out |-> NoneResult]

NotScanned == [called |-> FALSE, address |-> "", matches |-> <<>>, tokens |-> <<>>]

InitPure == constructed = NotConstructed /\ scanned = NotScanned

InitThreads ==
    /\ lock = 0
    /\ shared = EmptyDict
    /\ heap = <<>>
    /\ pc = [t \in Threads |-> "idle"]
    /\ frame = [t \in Threads |-> NoFrame]
    /\ returned = <<>>

Init == InitParser /\ InitDisamb /\ InitData /\ InitThreads /\ InitPure /\ mutex = FALSE

\* parser.parse(address) on the parser built with the cache
ParseCall(address) ==
    /\ calls < MaxCalls
    /\ \E yielded \in YieldOrders[address] :
         \E out \in {Parse(Some(cache), address, yielded)} :
             /\ cache' = out.cache[1]
             /\ results' = [a \in DOMAIN results \cup {address} |->
                              IF a = address THEN out.result ELSE results[a]]
             /\ last' = [address |-> address, trace |-> out.trace, before |-> cache,
                         called |-> TRUE]
    /\ calls' = calls + 1
    /\ UNCHANGED <<pureVars, disambVars, dataVars, concVars>>

Next == \E address \in Addresses : ParseCall(address)

Spec == Init /\ [][Next]_vars

(***************************************************************************)
(* _disambiguate_trees on lists of trees of one address                    *)
(***************************************************************************)
DisambAddresses ==
    {"Tucuman y Salta 1000", "Tucumán y Córdoba y Callao", "Salta e/ Jujuy y Callao y Peru",
     "s/nombre y Salta 100", "Tucumán 1300 1° A"}

\* the rank of a tree that the chart parser yields
RankOf(tree) == GetRank(tree.children[1])

\* the lists of n different elements of S
Lists(S, n) == {f \in [1..n -> S] : \A i, j \in 1..n : i # j => f[i] # f[j]}

\* [TreeVisitor(tree[0]) for tree in trees]
VisitorsOf(trees) == [k \in 1..Len(trees) |-> TreeVisitor(trees[k].children[1])]

InitGiven ==
    /\ InitParser /\ InitData /\ InitThreads /\ InitPure /\ mutex = FALSE
    /\ chosen = NotChosen
    /\ \E address \in DisambAddresses :
         \E n \in 1..MaxTrees :
            /\ n <= Cardinality(ParseTrees[address])
            /\ \E trees \in Lists(ParseTrees[address], n) :
                  given = [address |-> address, trees |-> trees]

\* self._disambiguate_trees(visitors); when the list holds every tree of the
\* address, parse of the address with the trees yielded in that order as well
Disambiguate ==
    /\ ~chosen.done
    /\ chosen' = [done |-> TRUE,
                  out |-> DisambiguateTrees(VisitorsOf(given.trees)),
                  parsed |-> IF Len(given.trees) = Cardinality(ParseTrees[given.address])
                             THEN Some(Parse(None, given.address, given.trees).result)
                             ELSE None]
    /\ UNCHANGED <<pureVars, parserVars, given, dataVars, concVars>>

NextDisamb == Disambiguate

SpecDisamb == InitGiven /\ [][NextDisamb]_vars

\* the tree of the visitor returned, if any
TreeOf(out) == IF out = None THEN None ELSE Some(out[1].tree)

\* C3: _disambiguate_trees returns a tree exactly when its rank is greater than
\* the rank of every other tree of the list, returns None when two or more trees
\* share the greatest rank, returns the same for every order of the list, and
\* parse returns None when the trees of the address share the greatest rank
C3_Disambiguation ==
    chosen.done =>
        LET visitors == VisitorsOf(given.trees)
            n == Len(visitors)
            R(k) == GetRank(visitors[k].tree)
            Best(k) == \A j \in 1..n : j # k => RankLess(R(j), R(k))
            Shared == \E j, k \in 1..n :
                         j # k /\ R(j) = R(k) /\ \A i \in 1..n : ~RankLess(R(k), R(i))
        IN  /\ \A k \in 1..n : (TreeOf(chosen.out) = Some(visitors[k].tree)) <=> Best(k)
            /\ Shared => chosen.out = None
            /\ \A order \in Lists(1..n, n) :
                  TreeOf(DisambiguateTrees([k \in 1..n |-> visitors[order[k]]]))
                      = TreeOf(chosen.out)
            /\ (Shared /\ chosen.parsed # None) => chosen.parsed = Some(NoneResult)

\* C3 witness: three trees, the first with a rank below the rank that the other
\* two share, and parse of the address returned None
C3_Witness ==
    /\ chosen.done /\ Len(given.trees) = 3
    /\ RankLess(RankOf(given.trees[1]), RankOf(given.trees[2]))
    /\ RankOf(given.trees[2]) = RankOf(given.trees[3])
    /\ chosen.out = None /\ chosen.parsed = Some(NoneResult)

\* whether the tree has a subtree with the label, the tree itself included
RECURSIVE Contains(_, _)
Contains(tree, label) ==
    \/ tree.label = label
    \/ \E k \in 1..Len(tree.children) : Contains(tree.children[k], label)

\* the number of street_no_num and street_with_num subtrees of the first n
\* children of the tree, and of the tree itself when n is all of them, whose
\* first grandchild is labelled unnamed_street
RECURSIVE UnnamedStreets(_, _)
UnnamedStreets(tree, n) ==
    IF n = 0
    THEN 0
    ELSE UnnamedStreets(tree, n - 1)
         + UnnamedStreets(tree.children[n], Len(tree.children[n].children))
         + (IF /\ n = Len(tree.children)
               /\ tree.label \in {"street_no_num", "street_with_num"}
               /\ tree.children[1].children # <<>>
               /\ tree.children[1].children[1].label = "unnamed_street"
            THEN 1 ELSE 0)

\* C14: the rank of a tree is (u, d, t): d is 1 iff the tree has a
\* street_with_num subtree, u counts the street_no_num and street_with_num
\* subtrees whose first grandchild is unnamed_street, t is the index of the
\* root label in intersection, simple, between when d = 1 and in simple,
\* intersection, between when d = 0; the tree selected is the one whose rank
\* is the largest in the lexicographic order
C14_Rank ==
    chosen.done /\ Len(given.trees) >= 2 =>
        LET visitors == VisitorsOf(given.trees)
            d(tree) == IF Contains(tree, "street_with_num") THEN 1 ELSE 0
            t(tree) == IF d(tree) = 1
                       THEN CASE tree.label = "intersection" -> 0
                              [] tree.label = "simple" -> 1
                              [] tree.label = "between" -> 2
                       ELSE CASE tree.label = "simple" -> 0
                              [] tree.label = "intersection" -> 1
                              [] tree.label = "between" -> 2
            Triple(tree) == <<UnnamedStreets(tree, Len(tree.children)), d(tree), t(tree)>>
            Larger(a, b) == \E i \in 1..3 : a[i] > b[i] /\ \A j \in 1..(i - 1) : a[j] = b[j]
        IN  /\ \A k \in 1..Len(visitors) :
                  WithRank(visitors[k]).rank = Some(Triple(visitors[k].tree))
            /\ chosen.out # None =>
                  /\ chosen.out[1].rank = Some(Triple(chosen.out[1].tree))
                  /\ \A k \in 1..Len(visitors) :
                        visitors[k].tree # chosen.out[1].tree =>
                           Larger(Triple(chosen.out[1].tree), Triple(visitors[k].tree))

\* C14 witness: an intersection with an unnamed street and a door number, of
\* rank (1, 1, 0), was selected among two trees
C14_Witness ==
    /\ chosen.done /\ Len(given.trees) >= 2
    /\ chosen.out # None
    /\ chosen.out[1].tree.label = "intersection"
    /\ chosen.out[1].rank = Some(<<1, 1, 0>>)

\* the pairs <<i, s>> of trees given where tree i is an intersection and tree
\* s is simple, both with a door number and with as many unnamed streets
Competing ==
    {pair \in (1..Len(given.trees)) \X (1..Len(given.trees)) :
        LET i == RankOf(given.trees[pair[1]])
            s == RankOf(given.trees[pair[2]])
        IN  /\ given.trees[pair[1]].children[1].label = "intersection"
            /\ given.trees[pair[2]].children[1].label = "simple"
            /\ i[2] = 1 /\ s[2] = 1 /\ i[1] = s[1]}

\* C15 as stated: among trees with a door number and as many unnamed streets,
\* an intersection outranks a simple reading, and the simple tree is not the
\* one selected
C15_IntersectionOutranksSimple ==
    chosen.done =>
        \A pair \in Competing :
           /\ RankLess(RankOf(given.trees[pair[2]]), RankOf(given.trees[pair[1]]))
           /\ TreeOf(chosen.out) # Some(given.trees[pair[2]].children[1])

\* C15: among trees with a door number and as many unnamed streets, a simple
\* reading outranks an intersection, and the intersection tree is not the one
\* selected
C15_SimpleOutranksIntersection ==
    chosen.done =>
        \A pair \in Competing :
           /\ RankLess(RankOf(given.trees[pair[1]]), RankOf(given.trees[pair[2]]))
           /\ TreeOf(chosen.out) # Some(given.trees[pair[1]].children[1])

\* C15 witness: an intersection and a simple tree, both with a door number,
\* were given, and the simple tree was selected
C15_Witness ==
    /\ chosen.done
    /\ \E pair \in Competing : TreeOf(chosen.out) = Some(given.trees[pair[2]].children[1])

(***************************************************************************)
(* Construction of AddressData                                             *)
(***************************************************************************)
DataTypes == {"simple", "intersection", "between", "address", "street", ""}

DataStreetNames == {<<>>, <<"Salta">>, <<"Salta", "Jujuy">>, <<"Salta", "Jujuy", "Callao">>}

DataDoorNumbers ==
    {None, <<None, None>>, <<Some("100"), None>>, <<Some("33"), Some("km")>>,
     <<Some("1000"), Some("N")>>, <<Some("1,3"), Some("N°")>>, <<Some("43.5"), Some("KM.")>>,
     <<Some("S/N"), Some("")>>, <<Some(""), Some("Nro.")>>, <<Some("32,50"), Some("Kilómetro")>>,
     <<Some("12 3,5"), Some("kilometro")>>, <<Some("1.2.3"), Some("KILÓMETRO")>>,
     <<Some("007"), Some("k m")>>, <<Some("1,"), Some("kilo metro")>>,
     <<Some(",5 y 2"), Some("el km")>>, <<Some("a1b,22"), Some("kil")>>,
     <<Some("1,,2"), Some("númerO")>>, <<Some("0.0"), Some("Km33")>>,
     <<Some("10.05"), Some("#")>>, <<Some("2-4"), Some("Kms")>>}

DataFloors == {None, Some("1° A")}

\* AddressData(address_type, street_names, door_number, floor); a behaviour
\* follows one object
Construct(address_type, street_names, door_number, floor) ==
    /\ made = NotMade
    /\ made' = [from |-> "init", type |-> address_type, street_names |-> street_names,
                door_number |-> door_number, floor |-> floor,
                out |-> AddressData(address_type, street_names, door_number, floor)]
    /\ asked' = NotNormalized
    /\ UNCHANGED <<pureVars, parserVars, disambVars, concVars>>

\* the AddressData that parse constructs for an address, on a parser without a
\* cache; type is the label of the root of the tree selected
ParseConstruct(address) ==
    /\ made = NotMade
    /\ \E yielded \in YieldOrders[address] :
         \E got \in {ParseTokenTypes(None, KindsOf(Tokens[address]), yielded)},
            out \in {Parse(None, address, yielded).result} :
             /\ out.status # "None"
             /\ made' = [from |-> "parse", type |-> got.tree[1].tree.label,
                         street_names |-> <<>>, door_number |-> None, floor |-> None,
                         out |-> out]
    /\ asked' = NotNormalized
    /\ UNCHANGED <<pureVars, parserVars, disambVars, concVars>>

\* data.normalized_door_number_value() on the AddressData made
CallNormalizedDoorNumberValue ==
    /\ made.out.status = "AddressData"
    /\ asked' = [method |-> "value", result |-> NormalizedDoorNumberValue(made.out)]
    /\ UNCHANGED <<pureVars, parserVars, disambVars, concVars, made>>

\* data.normalized_door_number_unit() on the AddressData made
CallNormalizedDoorNumberUnit ==
    /\ made.out.status = "AddressData"
    /\ asked' = [method |-> "unit", result |-> NormalizedDoorNumberUnit(made.out)]
    /\ UNCHANGED <<pureVars, parserVars, disambVars, concVars, made>>

NextData ==
    \/ \E address_type \in DataTypes, street_names \in DataStreetNames,
          door_number \in DataDoorNumbers, floor \in DataFloors :
            Construct(address_type, street_names, door_number, floor)
    \/ \E address \in Addresses : ParseConstruct(address)
    \/ CallNormalizedDoorNumberValue
    \/ CallNormalizedDoorNumberUnit

SpecData == Init /\ [][NextData]_vars

AddressTypes == {ADDRESS_TYPES[k] : k \in 1..Len(ADDRESS_TYPES)}

\* C7: constructing an AddressData with a type outside simple, intersection and
\* between raises ValueError and yields no record; every AddressData, those that
\* parse returns included, has one of the three types, for parse the label of
\* the root of the tree selected
C7_TypeSet ==
    /\ (made.from = "init" /\ made.type \notin AddressTypes) => made.out = Raise("ValueError")
    /\ made.out.status = "AddressData" => made.out.type \in AddressTypes
    /\ (made.from = "parse" /\ made.out.status = "AddressData") => made.out.type = made.type

\* C7 witness: a construction with the type address, which raised
C7_Witness ==
    /\ made.from = "init" /\ made.type = "address"
    /\ made.street_names = <<"Salta">>
    /\ made.out.status = "raise"

\* the digit runs and decimal separators of a door number value, by position
DigitAt(v, i) == i \in 1..Len(v) /\ IsDigit(CharAt(v, i))

SeparatorAt(v, k) == DigitAt(v, k - 1) /\ CharAt(v, k) \in {",", "."} /\ DigitAt(v, k + 1)

RunStart(v, i) == CHOOSE a \in 1..i : (\A x \in a..i : DigitAt(v, x)) /\ ~DigitAt(v, a - 1)

RunEnd(v, i) == CHOOSE b \in i..Len(v) : (\A x \in i..b : DigitAt(v, x)) /\ ~DigitAt(v, b + 1)

RECURSIVE Pow10(_)
Pow10(n) == IF n = 0 THEN 1 ELSE 10 * Pow10(n - 1)

\* the number that the digits at the positions a..b denote
RECURSIVE Denoted(_, _, _)
Denoted(v, a, b) ==
    IF a > b THEN 0 ELSE DigitVal(CharAt(v, a)) * Pow10(b - a) + Denoted(v, a + 1, b)

\* C11: normalized_door_number_value returns the float that the first
\* digits[,.]digits part of the value denotes when there is one, else the int
\* that the first run of digits denotes when there is one, else None; None as
\* well for a value that is None or empty
C11_DoorNumberValue ==
    asked.method = "value" =>
        LET value == made.out.door_number_value
            r == asked.result
        IN  IF value = None \/ value = Some("") THEN r = None
            ELSE LET v == value[1]
                     seps == {k \in 1..Len(v) : SeparatorAt(v, k)}
                     digits == {i \in 1..Len(v) : DigitAt(v, i)}
                 IN  IF seps # {}
                     THEN LET k == CHOOSE x \in seps : \A y \in seps : x <= y
                              a == RunStart(v, k - 1)
                              b == RunEnd(v, k + 1)
                          IN  /\ r # None /\ r[1].kind = "float"
                              /\ r[1].m * Pow10(b - k) =
                                    (Denoted(v, a, k - 1) * Pow10(b - k) + Denoted(v, k + 1, b))
                                        * Pow10(r[1].scale)
                     ELSE IF digits # {}
                     THEN LET a == CHOOSE x \in digits : \A y \in digits : x <= y
                          IN  r = Some(IntNum(Denoted(v, a, RunEnd(v, a))))
                     ELSE r = None

\* C11 witness: the value "12 3,5", with a run of digits before the decimal
\* number, gave the float 3.5
C11_Witness ==
    /\ asked.method = "value"
    /\ made.out.door_number_value = Some("12 3,5")
    /\ asked.result = Some(FloatNum(35, 1))

\* C12: normalized_door_number_unit returns "km" when the unit holds km,
\* kilometro or kilómetro in any case, and None otherwise, for a unit that is
\* None or empty and for the number labels as well
C12_DoorNumberUnit ==
    asked.method = "unit" =>
        LET unit == made.out.door_number_unit
        IN  asked.result =
                IF /\ unit # None
                   /\ \E w \in {"km", "kilometro", "kilómetro"} :
                        \E i \in 1..Len(unit[1]) :
                           /\ i + Len(w) - 1 <= Len(unit[1])
                           /\ \A x \in 1..Len(w) :
                                 Lower(CharAt(unit[1], i + x - 1)) = CharAt(w, x)
                THEN Some("km")
                ELSE None

\* C12 witness: the unit KM. gave km
C12_Witness ==
    /\ asked.method = "unit"
    /\ made.out.door_number_unit = Some("KM.")
    /\ asked.result = Some("km")

(***************************************************************************)
(* Tokenizing: _tokenize_address on the normalized form of short texts     *)
(* made of words that the token types tell apart.                          *)
(***************************************************************************)
MaxWords == 2

TokenWords == <<"Salta", "y", "e/", "100", "km.", "kilometros", "de", "1°", "dto.", "s/n">>

\* the texts of n words, with one space between words
RECURSIVE Texts(_)
Texts(n) ==
    IF n = 1 THEN {TokenWords[k] : k \in 1..Len(TokenWords)}
    ELSE {text \o " " \o TokenWords[k] : text \in Texts(n - 1), k \in 1..Len(TokenWords)}

\* the normalized addresses given to _tokenize_address: parse gives it no
\* empty one
Processed ==
    {NormalizeAddress(text) : text \in UNION {Texts(n) : n \in 1..MaxWords}} \ {""}

\* what the call does with each of them: the matches found and the tokens
Scans ==
    [address \in Processed |->
        [called |-> TRUE, address |-> address, matches |-> FindIter(address, 1),
         tokens |-> TokenizeAddress(address)]]

CallTokenizeAddress ==
    /\ ~scanned.called
    /\ \E address \in Processed : scanned' = Scans[address]
    /\ UNCHANGED <<parserVars, disambVars, dataVars, concVars, constructed>>

NextTok == CallTokenizeAddress

SpecTok == Init /\ [][NextTok]_vars

\* the position of the token type in _TOKEN_TYPES
TypeIndex(kind) == CHOOSE k \in 1..Len(TOKEN_TYPES) : TOKEN_TYPES[k][1] = kind

\* the matches that give a token, in order
Kept == SelectSeq(scanned.matches, LAMBDA mo : mo.kind # "WS")

\* C17: the scan goes on from the end of each match, and at every position of
\* the scan the match is the one of the first pattern of _TOKEN_TYPES that
\* matches there, also when a later pattern matches more characters there
C17_Priority ==
    scanned.called =>
        /\ scanned.matches # <<>> /\ scanned.matches[1].start = 1
        /\ \A i \in 1..(Len(scanned.matches) - 1) :
              scanned.matches[i + 1].start = scanned.matches[i].e
        /\ \A i \in 1..Len(scanned.matches) :
              /\ MatchEnd(TOKEN_TYPES[TypeIndex(scanned.matches[i].kind)][2],
                          scanned.address, scanned.matches[i].start) = scanned.matches[i].e
              /\ \A k \in 1..(TypeIndex(scanned.matches[i].kind) - 1) :
                    MatchEnd(TOKEN_TYPES[k][2], scanned.address, scanned.matches[i].start) = 0
        /\ Len(scanned.tokens) = Len(Kept)
        /\ \A i \in 1..Len(Kept) : scanned.tokens[i][2] = Kept[i].kind

\* C17 witness: a KM token for kilometro where WORD matches kilometros
C17_Witness ==
    /\ scanned.called
    /\ \E i \in 1..Len(scanned.matches) :
          /\ scanned.matches[i].kind = "KM"
          /\ MatchEnd(TOKEN_TYPES[TypeIndex("WORD")][2], scanned.address,
                      scanned.matches[i].start) > scanned.matches[i].e

PUNCTUATION == ".,;:-/"

\* C19 as stated: the value of every token is the matched text without the
\* whitespace and without the punctuation at its end
C19_PunctuationStripped ==
    scanned.called =>
        \A i \in 1..Len(scanned.tokens) :
           LET value == scanned.tokens[i][1]
           IN  value # "" =>
                  /\ ~IsSpace(CharAt(value, Len(value)))
                  /\ \A k \in 1..Len(PUNCTUATION) :
                        CharAt(value, Len(value)) # CharAt(PUNCTUATION, k)

\* C19: the value of every token is the matched text without the whitespace
\* at its start and at its end, the punctuation kept
C19_WhitespaceStripped ==
    scanned.called =>
        /\ Len(scanned.tokens) = Len(Kept)
        /\ \A i \in 1..Len(Kept) :
              LET inside == {c \in Kept[i].start..(Kept[i].e - 1) :
                               ~IsSpace(CharAt(scanned.address, c))}
                  first == CHOOSE c \in inside : \A d \in inside : c <= d
                  final == CHOOSE c \in inside : \A d \in inside : d <= c
              IN  /\ inside # {}
                  /\ scanned.tokens[i][1] = SubSeq(scanned.address, first, final)

\* C19 witness: the match of DOOR_TYPE on dto. and the space after it gave the
\* value dto. with its point
C19_Witness ==
    /\ scanned.called
    /\ \E i \in 1..Len(Kept) :
          /\ Kept[i].kind = "DOOR_TYPE"
          /\ IsSpace(CharAt(scanned.address, Kept[i].e - 1))
          /\ scanned.tokens[i][1] = "dto."

(***************************************************************************)
(* Constructing parsers: AddressParser.__init__ over the grammars that the *)
(* grammar file may hold.                                                  *)
(***************************************************************************)
MaxProductions == 4

\* productions that a grammar file may hold: valid ones, one with an empty
\* right-hand side, ones with a terminal that is no token type or with a
\* nonterminal that may lack productions
GrammarPool == <<
    P("address", <<NT("simple")>>),
    P("simple", <<NT("street")>>),
    P("street", <<T("WORD")>>),
    P("street", <<T("WORD"), T("NUM")>>),
    P("simple", <<>>),
    P("street", <<T("NAME")>>),
    P("simple", <<NT("street"), NT("floor")>>),
    P("floor", <<NT("door"), T("NAME")>>),
    P("floor", <<T("NAME"), NT("door")>>)
  >>

\* the start symbol: the left-hand side of the first production, or the one
\* that a %start line names
GrammarStarts == {"address", "simple"}

\* the elements of S in increasing order
RECURSIVE Ascending(_)
Ascending(S) ==
    IF S = {} THEN <<>>
    ELSE LET least == CHOOSE x \in S : \A y \in S : x <= y
         IN  <<least>> \o Ascending(S \ {least})

Picked(S) == [k \in 1..Cardinality(S) |-> GrammarPool[Ascending(S)[k]]]

Grammars ==
    {[start |-> start, productions |-> Picked(S)] :
        start \in GrammarStarts,
        S \in {X \in SUBSET (1..Len(GrammarPool)) :
                 Cardinality(X) >= 1 /\ Cardinality(X) <= MaxProductions}}

CallAddressParser(g) ==
    /\ constructed' = [called |-> TRUE, grammar |-> g, out |-> NewAddressParser(g)]
    /\ UNCHANGED <<parserVars, disambVars, dataVars, concVars, scanned>>

\* the parser is constructed over the grammar of the package, or over another
\* content of the grammar file
NextLoad ==
    \/ CallAddressParser(AddressGrammar)
    \/ \E g \in Grammars : CallAddressParser(g)

SpecLoad == Init /\ [][NextLoad]_vars

\* the elements of the right-hand sides of the grammar
RhsElements(g) ==
    UNION {{g.productions[k].rhs[n] : n \in 1..Len(g.productions[k].rhs)} :
           k \in 1..Len(g.productions)}

\* the symbols on right-hand sides that the loader is to refuse
BadElements(g) ==
    {e.sym : e \in {x \in RhsElements(g) :
                      IF x.nt THEN \A k \in 1..Len(g.productions) : g.productions[k].lhs # x.sym
                      ELSE \A k \in 1..Len(TOKEN_TYPES) : TOKEN_TYPES[k][1] # x.sym}}

EmptyLhs(g) == {g.productions[k].lhs : k \in {i \in 1..Len(g.productions) : g.productions[i].rhs = <<>>}}

ValidGrammar(g) == g.start = "address" /\ EmptyLhs(g) = {} /\ BadElements(g) = {}

\* loading succeeds exactly for the valid grammars, and a failure is an
\* InvalidGrammarException that leaves no parser
LoadsExactlyValid ==
    constructed.called =>
        /\ constructed.out.status = "AddressParser" <=> ValidGrammar(constructed.grammar)
        /\ constructed.out.status = "AddressParser" => constructed.out.grammar = constructed.grammar
        /\ constructed.out.status # "AddressParser" =>
              constructed.out.status = "raise" /\ constructed.out.exc = "InvalidGrammarException"

\* C13 as stated: grammar loading succeeds exactly when the start symbol is
\* address, no right-hand side is empty, and every nonterminal and terminal on
\* a right-hand side is known; every failure is an InvalidGrammar error that
\* names the offending symbol, and no AddressParser is constructed
C13_NamesOffendingSymbol ==
    /\ LoadsExactlyValid
    /\ constructed.called /\ constructed.out.status = "raise" =>
          \E sym \in BadElements(constructed.grammar) \cup EmptyLhs(constructed.grammar) \cup
                     ({constructed.grammar.start} \ {"address"}) :
             Within(sym, constructed.out.message)

\* C13: grammar loading succeeds exactly when the start symbol is address, no
\* right-hand side is empty, and every nonterminal and terminal on a
\* right-hand side is known; every failure is an InvalidGrammar error and no
\* AddressParser is constructed; the error names an offending symbol when the
\* start symbol is address and no production is empty
C13_GrammarLoading ==
    /\ LoadsExactlyValid
    /\ (constructed.called /\ constructed.out.status = "raise"
          /\ constructed.grammar.start = "address" /\ EmptyLhs(constructed.grammar) = {})
       => \E sym \in BadElements(constructed.grammar) : Within(sym, constructed.out.message)

\* C13 witness: a grammar with start symbol address, whose nonterminal floor
\* has no production, was refused with the message that names floor
C13_Witness ==
    /\ constructed.called
    /\ constructed.grammar.start = "address"
    /\ BadElements(constructed.grammar) = {"floor"}
    /\ constructed.out.status = "raise"
    /\ constructed.out.message = "Invalid nonterminal: floor"

(***************************************************************************)
(* Two threads that call parse on one parser built with a cache.  A step   *)
(* is one read or one write of the dict or of a field of a TreeVisitor     *)
(* that the dict holds; what a thread does on its own objects in between   *)
(* belongs to the step.                                                    *)
(***************************************************************************)
MaxConcCalls == 2

ConcAddresses ==
    {"Corrientes 1000", "Tucumán 2000", "Corrientes y Salta", "Tucumán y Córdoba y Callao",
     "   "}

InitConc == InitParser /\ InitDisamb /\ InitData /\ InitThreads /\ InitPure /\ mutex \in BOOLEAN

Started == Len(returned) + Cardinality({t \in Threads : pc[t] # "idle"})

HashOf(t) == TokensHash(KindsOf(Tokens[frame[t].address]))

\* a hit that finds nothing
FetchMissing(dict, tokens_hash) == None

\* self._cache[tokens_hash]
Fetch(dict, tokens_hash) == dict[tokens_hash]

\* the return of parse: the host releases the lock
Return(t, address, result, ran) ==
    /\ returned' = Append(returned, [thread |-> t, address |-> address, result |-> result,
                                     ran |-> ran])
    /\ lock' = IF mutex THEN 0 ELSE lock
    /\ pc' = [pc EXCEPT ![t] = "idle"]
    /\ frame' = [frame EXCEPT ![t] = NoFrame]

\* parse up to the call of _parse_token_types: the host takes the lock, the
\* address is normalized and, unless it is empty, tokenized
ConcStart(t, address) ==
    /\ pc[t] = "idle"
    /\ Started < MaxConcCalls
    /\ mutex => lock = 0
    /\ IF Normalized[address] = ""
       THEN /\ Return(t, address, NoneResult, FALSE)
            /\ UNCHANGED <<shared, heap>>
       ELSE /\ lock' = IF mutex THEN t ELSE lock
            /\ frame' = [frame EXCEPT ![t] = [NoFrame EXCEPT !.address = address]]
            /\ pc' = [pc EXCEPT ![t] = "contains"]
            /\ UNCHANGED <<shared, heap, returned>>
    /\ UNCHANGED <<pureVars, parserVars, disambVars, dataVars, mutex>>

\* if tokens_hash in self._cache
ConcContains(t) ==
    /\ pc[t] = "contains"
    /\ pc' = [pc EXCEPT ![t] = IF HashOf(t) \in DOMAIN shared THEN "get" ELSE "compute"]
    /\ UNCHANGED <<pureVars, parserVars, disambVars, dataVars, mutex, lock, shared, heap, frame,
                   returned>>

\* return self._cache[tokens_hash]
ConcGet(t) ==
    /\ pc[t] = "get"
    /\ frame' = [frame EXCEPT ![t].visitor = Fetch(shared, HashOf(t))]
    /\ pc' = [pc EXCEPT ![t] = "extract"]
    /\ UNCHANGED <<pureVars, parserVars, disambVars, dataVars, mutex, lock, shared, heap, returned>>

\* tree = self._tokens_parse_tree(token_types): the visitors are new objects
ConcCompute(t) ==
    /\ pc[t] = "compute"
    /\ \E yielded \in YieldOrders[frame[t].address] :
         \E tree \in {TokensParseTree(yielded)}, ref \in {Len(heap) + 1} :
             IF tree = None
             THEN /\ frame' = [frame EXCEPT ![t].visitor = None, ![t].ran = TRUE]
                  /\ heap' = heap
             ELSE /\ frame' = [frame EXCEPT ![t].visitor = Some(ref), ![t].ran = TRUE]
                  /\ heap' = Append(heap, tree[1])
    /\ pc' = [pc EXCEPT ![t] = "store"]
    /\ UNCHANGED <<pureVars, parserVars, disambVars, dataVars, mutex, lock, shared, returned>>

\* self._cache[tokens_hash] = tree
ConcStore(t) ==
    /\ pc[t] = "store"
    /\ shared' = [k \in DOMAIN shared \cup {HashOf(t)} |->
                    IF k = HashOf(t) THEN frame[t].visitor ELSE shared[k]]
    /\ pc' = [pc EXCEPT ![t] = "extract"]
    /\ UNCHANGED <<pureVars, parserVars, disambVars, dataVars, mutex, lock, heap, frame, returned>>

\* if not visitor: return None; then, in extract_data,
\* if not self._components_leaves_indices
ConcExtract(t) ==
    /\ pc[t] = "extract"
    /\ IF frame[t].visitor = None
       THEN /\ Return(t, frame[t].address, NoneResult, frame[t].ran)
            /\ UNCHANGED <<shared, heap>>
       ELSE /\ pc' = [pc EXCEPT ![t] = IF heap[frame[t].visitor[1]].indices = None
                                       THEN "memoize" ELSE "select"]
            /\ UNCHANGED <<lock, shared, heap, frame, returned>>
    /\ UNCHANGED <<pureVars, parserVars, disambVars, dataVars, mutex>>

\* self._components_leaves_indices = self._get_components_leaves_indices()
ConcMemoize(t) ==
    /\ pc[t] = "memoize"
    /\ heap' = [heap EXCEPT ![frame[t].visitor[1]] = WithIndices(heap[frame[t].visitor[1]])]
    /\ pc' = [pc EXCEPT ![t] = "select"]
    /\ UNCHANGED <<pureVars, parserVars, disambVars, dataVars, mutex, lock, shared, frame, returned>>

\* the rest of extract_data, which reads the indices of the visitor, and the
\* construction of the AddressData that parse returns
ConcSelect(t) ==
    /\ pc[t] = "select"
    /\ \E visitor \in {heap[frame[t].visitor[1]]} :
          Return(t, frame[t].address,
                 Assemble(visitor, ExtractData(visitor.indices[1], Tokens[frame[t].address])),
                 frame[t].ran)
    /\ UNCHANGED <<pureVars, parserVars, disambVars, dataVars, mutex, shared, heap>>

NextConc ==
    \E t \in Threads :
        \/ \E address \in ConcAddresses : ConcStart(t, address)
        \/ ConcContains(t)
        \/ ConcGet(t)
        \/ ConcCompute(t)
        \/ ConcStore(t)
        \/ ConcExtract(t)
        \/ ConcMemoize(t)
        \/ ConcSelect(t)

SpecConc == InitConc /\ [][NextConc]_vars

\* what parse returns for each address when no other call runs
Alone == [a \in ConcAddresses |-> {Parse(None, a, yielded).result : yielded \in YieldOrders[a]}]

\* the dict with the visitors in place of the references to them
Deref == [k \in DOMAIN shared |-> IF shared[k] = None THEN None ELSE Some(heap[shared[k][1]])]

\* the calls of a list one after the other on a parser with an empty cache: the
\* cache at the end and the result of each call
RECURSIVE Serial(_)
Serial(addresses) ==
    IF addresses = <<>> THEN [cache |-> Some(EmptyDict), results |-> <<>>]
    ELSE LET before == Serial(SubSeq(addresses, 1, Len(addresses) - 1))
             address == addresses[Len(addresses)]
             out == Parse(before.cache, address, CHOOSE yielded \in YieldOrders[address] : TRUE)
         IN  [cache |-> out.cache, results |-> Append(before.results, out.result)]

Quiescent == \A t \in Threads : pc[t] = "idle"

\* C9: under the lock the results and the final cache are those of the calls
\* run one after the other in the order in which they returned; without it
\* every call returns what it returns when run alone, and when no call is
\* running the cache has one entry per distinct list of token types parsed
C9_Concurrent ==
    /\ \A k \in 1..Len(returned) : Alone[returned[k].address] = {returned[k].result}
    /\ Quiescent =>
          Cardinality(DOMAIN shared) =
              Cardinality({KindsOf(Tokens[returned[k].address]) :
                             k \in {j \in 1..Len(returned) :
                                      Normalized[returned[j].address] # ""}})
    /\ (mutex /\ Quiescent) =>
          LET serial == Serial([k \in 1..Len(returned) |-> returned[k].address])
          IN  /\ serial.cache = Some(Deref)
              /\ serial.results = [k \in 1..Len(returned) |-> returned[k].result]

\* C9 witness: without the lock, both threads missed on the same token types,
\* both parsed and stored, and each returned the AddressData of its own address
C9_Witness ==
    /\ ~mutex /\ Quiescent /\ Len(returned) = 2
    /\ returned[1].thread # returned[2].thread
    /\ returned[1].address # returned[2].address
    /\ KindsOf(Tokens[returned[1].address]) = KindsOf(Tokens[returned[2].address])
    /\ returned[1].ran /\ returned[2].ran
    /\ returned[1].result.status = "AddressData"
    /\ Len(heap) = 2

(***************************************************************************)
(* Properties of parse on the parser built with a cache                    *)
(***************************************************************************)
\* what a parser built without a cache returns for each address, for every
\* order in which the chart parser may yield the trees
Uncached == [a \in Addresses |-> {Parse(None, a, yielded).result : yielded \in YieldOrders[a]}]

KeyOf == [a \in Addresses |-> TokensHash(KindsOf(Tokens[a]))]

\* two or more trees of the set share the greatest rank
TopRankShared(trees) ==
    \E t1, t2 \in trees :
        /\ t1 # t2
        /\ RankOf(t1) = RankOf(t2)
        /\ \A t \in trees : ~RankLess(RankOf(t1), RankOf(t))

Ambiguous == [a \in Addresses |-> TopRankShared(ParseTrees[a])]

\* C1: every call on the parser with the cache returns what a parser without a
\* cache returns for the same address, whatever was parsed before
C1_CacheTransparency ==
    \A a \in DOMAIN results : Uncached[a] = {results[a]}

\* C1 witness: a call answered from an entry that another address stored, with a
\* result that is not None
C1_Witness ==
    /\ last.called /\ last.trace.hit
    /\ results[last.address].status = "AddressData"
    /\ calls = 2 /\ Cardinality(DOMAIN results) = 2

\* C2: the cache holds one entry per distinct token type list among the parsed
\* addresses whose normalized form is not empty
C2_CacheKeyDiscipline ==
    Cardinality(DOMAIN cache) =
        Cardinality({KindsOf(Tokens[a]) : a \in {b \in DOMAIN results : Normalized[b] # ""}})

\* C2 witness: three addresses parsed, two of them with the same token types,
\* and two entries
C2_Witness ==
    /\ Cardinality(DOMAIN results) = 3
    /\ \A a \in DOMAIN results : Normalized[a] # ""
    /\ \E a, b \in DOMAIN results : a # b /\ KindsOf(Tokens[a]) = KindsOf(Tokens[b])
    /\ Cardinality(DOMAIN cache) = 2

C5_EmptyInput ==
    (last.called /\ Normalized[last.address] = "") =>
        /\ results[last.address] = NoneResult
        /\ last.trace = Trace(FALSE, FALSE, FALSE, FALSE)
        /\ cache = last.before

\* C5 witness: a whitespace-only address parsed when the cache has entries
C5_Witness ==
    /\ last.called /\ last.address = "   "
    /\ DOMAIN cache # {}

\* C6: a result has one street name when its type is simple, two when it is
\* intersection and three when it is between
C6_Cardinality ==
    \A a \in DOMAIN results :
        results[a].status = "AddressData" =>
            Len(results[a].street_names) = Index(ADDRESS_TYPES, results[a].type) + 1

\* C6 witness: a between result and an intersection result
C6_Witness ==
    \E a, b \in DOMAIN results :
        /\ results[a].status = "AddressData" /\ results[a].type = "between"
        /\ Len(results[a].street_names) = 3
        /\ results[b].status = "AddressData" /\ results[b].type = "intersection"

\* the values of the tokens at the indices, joined with single spaces
Joined(tokens, indices) ==
    IF indices = <<>> THEN None
    ELSE Some([k \in 1..Len(indices) |-> tokens[indices[k] + 1][1]])

\* the string split at its spaces
RECURSIVE Words(_)
Words(str) ==
    IF \A k \in 1..Len(str) : CharAt(str, k) # " " THEN <<str>>
    ELSE LET k == CHOOSE i \in 1..Len(str) :
                     CharAt(str, i) = " " /\ \A j \in 1..(i - 1) : CharAt(str, j) # " "
         IN  <<SubSeq(str, 1, k - 1)>> \o Words(SubSeq(str, k + 1, Len(str)))

\* the component, None or <<string>>, holds the values given, None or <<values>>
Holds(component, values) ==
    IF values = None THEN component = None
    ELSE component # None /\ Words(component[1]) = values[1]

\* a call answered from the cache with an AddressData
HitWithData ==
    /\ last.called /\ last.trace.hit
    /\ results[last.address].status = "AddressData"

\* C16: on a cache hit the entry gives the leaf indices only: the street names,
\* the door number value and unit and the floor returned are those of the tokens
\* of the current call at the indices that the entry held, and the entry is left
\* as it was; the results that earlier calls returned for other addresses are
\* not altered by a call
C16_HitReusesIndices ==
    /\ [](HitWithData =>
            LET tokens == Tokens[last.address]
                entry == last.before[KeyOf[last.address]]
                data == results[last.address]
            IN  /\ entry # None /\ entry[1].indices # None
                /\ cache = last.before
                /\ Len(data.street_names) = Len(entry[1].indices[1].street)
                /\ \A k \in 1..Len(data.street_names) :
                      Holds(Some(data.street_names[k]),
                            Joined(tokens, entry[1].indices[1].street[k]))
                /\ Holds(data.door_number_value,
                         Joined(tokens, entry[1].indices[1].door_number_value))
                /\ Holds(data.door_number_unit,
                         Joined(tokens, entry[1].indices[1].door_number_unit))
                /\ Holds(data.floor, Joined(tokens, entry[1].indices[1].floor)))
    /\ [][\A a \in DOMAIN results : a # last'.address => results'[a] = results[a]]_vars

\* C16 witness: a call answered from the entry that an address with the same
\* token types and other values stored, with a street name of the current call
C16_Witness ==
    /\ HitWithData
    /\ last.address = "Tucumán 2000"
    /\ "Corrientes 1000" \in DOMAIN results
    /\ results[last.address].street_names = <<"Tucumán">>
    /\ results[last.address].door_number_value = Some("2000")
    /\ results["Corrientes 1000"].street_names = <<"Corrientes">>

\* C8: once an address whose token types have no tree or are ambiguous was
\* parsed, the cache holds None for them, and a later call with the same token
\* types returns None from the cache without parsing again
C8_NegativeCached ==
    /\ \A a \in DOMAIN results :
          (Normalized[a] # "" /\ (ParseTrees[a] = {} \/ Ambiguous[a])) =>
              (KeyOf[a] \in DOMAIN cache /\ cache[KeyOf[a]] = None)
    /\ (last.called /\ Normalized[last.address] # ""
          /\ KeyOf[last.address] \in DOMAIN last.before
          /\ last.before[KeyOf[last.address]] = None) =>
              /\ results[last.address] = NoneResult
              /\ last.trace.hit /\ ~last.trace.ran
              /\ cache = last.before

\* C8 witness: a call answered None from an entry stored by another address
\* that has no tree
C8_Witness ==
    /\ last.called /\ last.trace.hit /\ ParseTrees[last.address] = {}
    /\ Normalized[last.address] # ""
    /\ calls = 2 /\ Cardinality(DOMAIN results) = 2
    /\ results[last.address] = NoneResult

\* the cache after a call holds every entry it held before, bound as before
Preserved(before, after) ==
    /\ DOMAIN before \subseteq DOMAIN after
    /\ \A k \in DOMAIN before : after[k] = before[k]

\* C20: a call of parse adds at most one key to the cache, the hash of the
\* token types of its address, and only on a miss; a hit and a call whose
\* normalized address is empty leave the keys and their values as they were;
\* no call removes an entry or binds an existing key to another value, so the
\* keys only grow
C20_CacheFrame ==
    /\ [](last.called =>
             /\ Preserved(last.before, cache)
             /\ (DOMAIN cache # DOMAIN last.before) =>
                    /\ DOMAIN cache = DOMAIN last.before \cup {KeyOf[last.address]}
                    /\ Normalized[last.address] # ""
                    /\ last.trace.consulted /\ ~last.trace.hit /\ last.trace.ran
             /\ (last.trace.hit \/ Normalized[last.address] = "") => cache = last.before)
    /\ [][Preserved(cache, cache') /\ Cardinality(DOMAIN cache' \ DOMAIN cache) <= 1]_vars

\* C20 witness: a miss that added its key to a cache that held another one,
\* which is still there
C20_Witness ==
    /\ last.called /\ ~last.trace.hit /\ last.trace.ran
    /\ last.before # EmptyDict
    /\ KeyOf[last.address] \notin DOMAIN last.before
    /\ DOMAIN cache = DOMAIN last.before \cup {KeyOf[last.address]}
    /\ \A k \in DOMAIN last.before : cache[k] = last.before[k]

\* b is a with one more whitespace character in one of its interior runs of
\* whitespace
Lengthened(a, b) ==
    /\ Len(b) = Len(a) + 1
    /\ \E p \in 2..(Len(a) - 1) :
          /\ IsSpace(CharAt(a, p))
          /\ LStrip(SubSeq(a, 1, p)) # "" /\ RStrip(SubSeq(a, p, Len(a))) # ""
          /\ b = SubSeq(a, 1, p) \o CharAt(a, p) \o SubSeq(a, p + 1, Len(a))

\* C10: two addresses that differ in the length of one interior run of
\* whitespace have the same result
C10_WhitespaceInvariance ==
    \A a, b \in DOMAIN results : Lengthened(a, b) => results[a] = results[b]
====
